---- MODULE Spec2Model ----
(***************************************************************************)
(* ST7789 panel driver (src/spi/display_st7789_v4.py) and raw-video player *)
(* (src/spi/webm_video_st7789.py) as one state machine.                    *)
(*                                                                         *)
(* Every function of the two scripts is an operator that yields the list   *)
(* of hardware calls ("instructions") the function performs, in program    *)
(* order.  A call is executed by Step (it returns), by Fault (it raises an *)
(* Exception) or is pre-empted by Interrupt (KeyboardInterrupt).  Every    *)
(* executed call is appended to the history variable `wire`.               *)
(***************************************************************************)
EXTENDS Integers, Sequences, FiniteSets, TLC

(* ------------------------------ bounds -------------------------------- *)
\* frame geometry of the player in the model (WIDTH, HEIGHT of
\* webm_video_st7789.py are 320 x 240): a frame of two chunks
WIDTH == 64
HEIGHT == 40
\* hardware calls that may raise in one run
MaxFaults == 1
\* KeyboardInterrupts delivered in one run
MaxInterrupts == 1
\* frames the decoder may deliver in one session
MaxFrames == 1
\* method calls made by a client of the ST7789 class after construction
MaxCalls == 2
MaxPayload == 8193
MaxStream == 3

(* ------------------------- program constants -------------------------- *)
\* WIDTH, HEIGHT of display_st7789_v4.py: the defaults of ST7789(width, height)
ST7789_WIDTH == 320
ST7789_HEIGHT == 240
ST7789_SWRESET == 1
ST7789_SLPOUT == 17
ST7789_NORON == 19
ST7789_INVON == 33
ST7789_DISPOFF == 40
ST7789_DISPON == 41
ST7789_CASET == 42
ST7789_RASET == 43
ST7789_RAMWR == 44
ST7789_MADCTL == 54
ST7789_COLMOD == 58
ROTATION == 96
SPI_CHUNK_SIZE == 4096
TARGET_FPS == 25

\* Python's None for the optional arguments of set_window
None == -1000

(* ---------------------- integer helpers (Python) ---------------------- *)
Min(a, b) == IF a < b THEN a ELSE b
Max(a, b) == IF a > b THEN a ELSE b

RECURSIVE Pow2(_)
Pow2(n) == IF n = 0 THEN 1 ELSE 2 * Pow2(n - 1)

\* x >> n on Python ints (floor division, also for negative x)
Shr(x, n) == x \div Pow2(n)
\* x << n on a numpy uint16 (wraps at 16 bits)
Shl16(x, n) == (x * Pow2(n)) % 65536

\* bitwise and / or of two non-negative integers, bit by bit
RECURSIVE BitAnd(_, _)
BitAnd(x, y) ==
  IF x = 0 \/ y = 0 THEN 0
  ELSE (IF x % 2 = 1 /\ y % 2 = 1 THEN 1 ELSE 0) + 2 * BitAnd(x \div 2, y \div 2)

RECURSIVE BitOr(_, _)
BitOr(x, y) ==
  IF x = 0 THEN y
  ELSE IF y = 0 THEN x
  ELSE (IF x % 2 = 1 \/ y % 2 = 1 THEN 1 ELSE 0) + 2 * BitOr(x \div 2, y \div 2)

\* x & 0xFF on a Python int (two's complement for negative x)
LowByte(x) == x % 256

(* --------------------------- colour conversion ------------------------ *)
\* display_image with the blue bits left where they are ((b & 0xF8), no >> 3)
Rgb565Driver_blue_unshifted(r, g, b) ==
  BitOr(BitOr(Shl16(BitAnd(r, 248), 8), Shl16(BitAnd(g, 252), 3)),
        BitAnd(b, 248))

\* display_image with the top bit of red masked away ((r & 0x78) << 8)
Rgb565Driver_red_mask_0x78(r, g, b) ==
  BitOr(BitOr(Shl16(BitAnd(r, 120), 8), Shl16(BitAnd(g, 252), 3)),
        Shr(BitAnd(b, 248), 3))

\* display_image: (r & 0xF8) << 8 | (g & 0xFC) << 3 | (b & 0xF8) >> 3 on uint16
Rgb565Driver(r, g, b) ==
  BitOr(BitOr(Shl16(BitAnd(r, 248), 8), Shl16(BitAnd(g, 252), 3)),
        Shr(BitAnd(b, 248), 3))

\* display_frame_rgb565 with green shifted like red and blue (g >> 3)
Rgb565Player_green5(r, g, b) ==
  BitOr(BitOr(Shl16(Shr(r, 3), 11), Shl16(Shr(g, 3), 5)), Shr(b, 3))

\* display_frame_rgb565: ((r >> 3) << 11) | ((g >> 2) << 5) | (b >> 3) on uint16
Rgb565Player(r, g, b) ==
  BitOr(BitOr(Shl16(Shr(r, 3), 11), Shl16(Shr(g, 2), 5)), Shr(b, 3))

\* ndarray.byteswap() on a uint16 element: the two bytes of the value swapped
ByteSwap16(v) == (v % 256) * 256 + (v \div 256)

\* ndarray.tobytes() on a native uint16 element: memory order of the host
ToBytesNative(v, littleEndian) ==
  IF littleEndian THEN << v % 256, v \div 256 >> ELSE << v \div 256, v % 256 >>

\* ndarray.astype('>u2').tobytes(): big-endian on every host
ToBytesBE(v) == << v \div 256, v % 256 >>

\* display_image: rgb565.byteswap().tobytes()
PixelBytesDriver(c, littleEndian) ==
  ToBytesNative(ByteSwap16(Rgb565Driver(c[1], c[2], c[3])), littleEndian)

\* display_frame_rgb565 sending the low byte of each pixel first
PixelBytesPlayer_low_byte_first(c) ==
  << Rgb565Player(c[1], c[2], c[3]) % 256, Rgb565Player(c[1], c[2], c[3]) \div 256 >>

\* display_frame_rgb565: pixel_data_rgb565.astype('>u2').tobytes()
PixelBytesPlayer(c) == ToBytesBE(Rgb565Player(c[1], c[2], c[3]))

(* ------------------------ instructions and events --------------------- *)
\* op: the hardware call; a: its object; v: level, length or milliseconds;
\* b: the first bytes of a payload; h: what an Exception raised by the call
\* does: h >= 0 skips the next h instructions (caught locally), h = -1
\* propagates to the enclosing handler of the script.
\* o: the offset of a transport write within its payload.
InsAt(op, a, v, b, h, o) == [op |-> op, a |-> a, v |-> v, b |-> b, h |-> h, o |-> o]
Ins(op, a, v, b, h) == InsAt(op, a, v, b, h, 0)
Ev(i, ok) == [op |-> i.op, a |-> i.a, v |-> i.v, b |-> i.b, o |-> i.o, ok |-> ok]

Res == {"spi", "dc", "rst", "gpio"}
Fallible == {"open", "req", "rst", "dc", "wr", "rel", "load",
             "spawn", "term", "wait", "kill", "pclose"}

\* the solid colours a displayed image or a decoded frame may have
Colors == { <<0, 0, 0>>, <<255, 0, 0>>, <<0, 255, 0>> }
\* the solid colours of the frames the decoder delivers
FrameColors == { <<0, 0, 0>>, <<255, 0, 0>> }

(* ------------------- display_st7789_v4.py: class ST7789 --------------- *)
\* ST7789.command without the check of the handles
ST7789_command_unguarded(cmd, at) ==
  << Ins("dc", "cmd", 0, << >>, 1), Ins("wr", "cmd", 1, <<cmd>>, 0) >>

\* ST7789.command
ST7789_command(cmd, at) ==
  IF ~at["dc"] \/ ~at["spi"] THEN << >>
  ELSE << Ins("dc", "cmd", 0, << >>, 1), Ins("wr", "cmd", 1, <<cmd>>, 0) >>

\* ST7789.data: n bytes starting with the bytes b, one transport call
ST7789_data(b, n, at) ==
  IF ~at["dc"] \/ ~at["spi"] THEN << >>
  ELSE << Ins("dc", "data", 1, << >>, 1), Ins("wr", "data", n, b, 0) >>

\* ST7789.reset without the final release of the line
ST7789_reset_no_release(at) ==
  IF ~at["rst"] THEN << >>
  ELSE << Ins("rst", "", 1, << >>, 3), Ins("sleep", "", 50, << >>, 0),
          Ins("rst", "", 0, << >>, 1), Ins("sleep", "", 50, << >>, 0) >>

\* ST7789.reset with the settle time after the release cut to 100 ms
ST7789_reset_short_settle(at) ==
  IF ~at["rst"] THEN << >>
  ELSE << Ins("rst", "", 1, << >>, 5), Ins("sleep", "", 50, << >>, 0),
          Ins("rst", "", 0, << >>, 3), Ins("sleep", "", 50, << >>, 0),
          Ins("rst", "", 1, << >>, 1), Ins("sleep", "", 100, << >>, 0) >>

\* ST7789.reset
ST7789_reset(at) ==
  IF ~at["rst"] THEN << >>
  ELSE << Ins("rst", "", 1, << >>, 5), Ins("sleep", "", 50, << >>, 0),
          Ins("rst", "", 0, << >>, 3), Ins("sleep", "", 50, << >>, 0),
          Ins("rst", "", 1, << >>, 1), Ins("sleep", "", 150, << >>, 0) >>

\* ST7789.init_display with display-on sent before normal-mode-on
ST7789_init_display_on_first(at) ==
  ST7789_command(ST7789_SWRESET, at) \o << Ins("sleep", "", 150, << >>, 0) >>
  \o ST7789_command(ST7789_SLPOUT, at) \o << Ins("sleep", "", 500, << >>, 0) >>
  \o ST7789_command(ST7789_MADCTL, at) \o ST7789_data(<<96>>, 1, at)
  \o ST7789_command(ST7789_COLMOD, at) \o ST7789_data(<<85>>, 1, at)
  \o ST7789_command(ST7789_INVON, at)
  \o ST7789_command(ST7789_DISPON, at) \o << Ins("sleep", "", 100, << >>, 0) >>
  \o ST7789_command(ST7789_NORON, at) \o << Ins("sleep", "", 10, << >>, 0) >>

\* ST7789.init_display
ST7789_init_display(at) ==
  ST7789_command(ST7789_SWRESET, at) \o << Ins("sleep", "", 150, << >>, 0) >>
  \o ST7789_command(ST7789_SLPOUT, at) \o << Ins("sleep", "", 500, << >>, 0) >>
  \o ST7789_command(ST7789_MADCTL, at) \o ST7789_data(<<96>>, 1, at)
  \o ST7789_command(ST7789_COLMOD, at) \o ST7789_data(<<85>>, 1, at)
  \o ST7789_command(ST7789_INVON, at)
  \o ST7789_command(ST7789_NORON, at) \o << Ins("sleep", "", 10, << >>, 0) >>
  \o ST7789_command(ST7789_DISPON, at) \o << Ins("sleep", "", 100, << >>, 0) >>

\* the clipping of set_window: max(0, min(x, limit - 1))
Clip(x, limit) == Max(0, Min(x, limit - 1))

\* ST7789.set_window sending the low byte of each coordinate first
ST7789_set_window_low_first(x0, y0, x1, y1, at) ==
  LET x1d == IF x1 = None THEN ST7789_WIDTH - 1 ELSE x1
      y1d == IF y1 = None THEN ST7789_HEIGHT - 1 ELSE y1
      cx0 == Clip(x0, ST7789_WIDTH)
      cx1 == Clip(x1d, ST7789_WIDTH)
      cy0 == Clip(y0, ST7789_HEIGHT)
      cy1 == Clip(y1d, ST7789_HEIGHT)
  IN ST7789_command(ST7789_CASET, at)
     \o ST7789_data(<< LowByte(cx0), LowByte(Shr(cx0, 8)),
                LowByte(cx1), LowByte(Shr(cx1, 8)) >>, 4, at)
     \o ST7789_command(ST7789_RASET, at)
     \o ST7789_data(<< LowByte(cy0), LowByte(Shr(cy0, 8)),
                LowByte(cy1), LowByte(Shr(cy1, 8)) >>, 4, at)
     \o ST7789_command(ST7789_RAMWR, at)

\* ST7789.set_window
ST7789_set_window(x0, y0, x1, y1, at) ==
  LET x1d == IF x1 = None THEN ST7789_WIDTH - 1 ELSE x1
      y1d == IF y1 = None THEN ST7789_HEIGHT - 1 ELSE y1
      cx0 == Clip(x0, ST7789_WIDTH)
      cx1 == Clip(x1d, ST7789_WIDTH)
      cy0 == Clip(y0, ST7789_HEIGHT)
      cy1 == Clip(y1d, ST7789_HEIGHT)
  IN ST7789_command(ST7789_CASET, at)
     \o ST7789_data(<< LowByte(Shr(cx0, 8)), LowByte(cx0),
                LowByte(Shr(cx1, 8)), LowByte(cx1) >>, 4, at)
     \o ST7789_command(ST7789_RASET, at)
     \o ST7789_data(<< LowByte(Shr(cy0, 8)), LowByte(cy0),
                LowByte(Shr(cy1, 8)), LowByte(cy1) >>, 4, at)
     \o ST7789_command(ST7789_RAMWR, at)

\* ST7789.display_image that writes the pixel data before it sets the window
ST7789_display_image_window_last(c, littleEndian, at) ==
  ST7789_data(PixelBytesDriver(c, littleEndian), ST7789_WIDTH * ST7789_HEIGHT * 2, at)
  \o ST7789_set_window(0, 0, None, None, at)

\* ST7789.display_image of an image of the solid colour c
ST7789_display_image(c, littleEndian, at) ==
  ST7789_set_window(0, 0, None, None, at)
  \o ST7789_data(PixelBytesDriver(c, littleEndian), ST7789_WIDTH * ST7789_HEIGHT * 2, at)

\* ST7789.close that closes the SPI device first and sends display-off then
ST7789_close_spi_first(at) ==
  (IF at["spi"]
     THEN << Ins("rel", "spi", 0, << >>, 0) >>
     ELSE << >>)
  \o (IF at["spi"] /\ at["dc"]
        THEN ST7789_command(ST7789_DISPOFF, at) \o << Ins("sleep", "", 50, << >>, 0) >>
        ELSE << >>)
  \o (IF at["dc"]
        THEN << Ins("rel", "dc", 0, << >>, 0), Ins("unset", "dc", 0, << >>, 0) >>
        ELSE << >>)
  \o (IF at["rst"]
        THEN << Ins("rel", "rst", 0, << >>, 0), Ins("unset", "rst", 0, << >>, 0) >>
        ELSE << >>)
  \o (IF at["spi"] THEN << Ins("unset", "spi", 0, << >>, 0) >> ELSE << >>)

\* ST7789.close that keeps its references to the handles it closed
ST7789_close_keeps_handles(at) ==
  (IF at["spi"] /\ at["dc"]
     THEN ST7789_command(ST7789_DISPOFF, at) \o << Ins("sleep", "", 50, << >>, 0) >>
     ELSE << >>)
  \o (IF at["dc"] THEN << Ins("rel", "dc", 0, << >>, 0) >> ELSE << >>)
  \o (IF at["rst"] THEN << Ins("rel", "rst", 0, << >>, 0) >> ELSE << >>)
  \o (IF at["spi"] THEN << Ins("rel", "spi", 0, << >>, 0) >> ELSE << >>)

\* ST7789.close
ST7789_close(at) ==
  (IF at["spi"] /\ at["dc"]
     THEN ST7789_command(ST7789_DISPOFF, at) \o << Ins("sleep", "", 50, << >>, 0) >>
     ELSE << >>)
  \o (IF at["dc"]
        THEN << Ins("rel", "dc", 0, << >>, 0), Ins("unset", "dc", 0, << >>, 0) >>
        ELSE << >>)
  \o (IF at["rst"]
        THEN << Ins("rel", "rst", 0, << >>, 0), Ins("unset", "rst", 0, << >>, 0) >>
        ELSE << >>)
  \o (IF at["spi"]
        THEN << Ins("rel", "spi", 0, << >>, 0), Ins("unset", "spi", 0, << >>, 0) >>
        ELSE << >>)

\* ST7789.__init__, the try block: SPI device, DC line, RST line
ST7789_acquire ==
  << Ins("new", "spi", 0, << >>, -1), Ins("open", "spi", 0, << >>, -1),
     Ins("req", "dc", 0, << >>, -1), Ins("req", "rst", 1, << >>, -1) >>


(* ------------------------- webm_video_st7789.py ----------------------- *)
\* byte i (from 0) of a payload of n bytes that repeats the bytes b
PayloadHead(b, off, len) ==
  [k \in 1..Min(Len(b), len) |-> b[((off + k - 1) % Len(b)) + 1]]

\* spi_write, the loop: one transport call per chunk, from offset off on; an
\* Exception of a call ends the loop (the remaining chunks are skipped)
RECURSIVE spi_write_from(_, _, _, _)
spi_write_from(kind, b, n, off) ==
  IF off >= n THEN << >>
  ELSE LET len == Min(SPI_CHUNK_SIZE, n - off)
           rest == spi_write_from(kind, b, n, off + SPI_CHUNK_SIZE)
       IN << InsAt("wr", kind, len, PayloadHead(b, off, len), Len(rest), off) >>
          \o rest

\* spi_write that hands the whole payload to one transport call
spi_write_one_call(kind, b, n, at) ==
  IF ~at["spi"] THEN << >>
  ELSE << InsAt("wr", kind, n, PayloadHead(b, 0, n), 0, 0) >>

\* spi_write
spi_write(kind, b, n, at) ==
  IF ~at["spi"] THEN << >> ELSE spi_write_from(kind, b, n, 0)

\* write_command
write_command(cmd, at) ==
  << Ins("dc", "cmd", 0, << >>, -1) >> \o spi_write("cmd", <<cmd>>, 1, at)

\* write_data with the line set left out
write_data_no_line_set(b, n, at) == spi_write("data", b, n, at)

\* write_data
write_data(b, n, at) ==
  << Ins("dc", "data", 1, << >>, -1) >> \o spi_write("data", b, n, at)

\* reset_display
reset_display ==
  << Ins("rst", "", 0, << >>, -1), Ins("sleep", "", 100, << >>, 0),
     Ins("rst", "", 1, << >>, -1), Ins("sleep", "", 100, << >>, 0) >>

\* init_display
init_display(at) ==
  reset_display
  \o write_command(17, at) \o << Ins("sleep", "", 120, << >>, 0) >>
  \o write_command(58, at) \o write_data(<<85>>, 1, at)
  \o write_command(54, at) \o write_data(<<ROTATION>>, 1, at)
  \o write_command(41, at) \o << Ins("sleep", "", 100, << >>, 0) >>

\* set_address_window
set_address_window(x0, y0, x1, y1, at) ==
  write_command(42, at)
  \o write_data(<< LowByte(Shr(x0, 8)), LowByte(x0),
                   LowByte(Shr(x1, 8)), LowByte(x1) >>, 4, at)
  \o write_command(43, at)
  \o write_data(<< LowByte(Shr(y0, 8)), LowByte(y0),
                   LowByte(Shr(y1, 8)), LowByte(y1) >>, 4, at)
  \o write_command(44, at)

\* display_frame_rgb565 that sends one byte per pixel
display_frame_rgb565_one_byte_per_pixel(c, at) ==
  set_address_window(0, 0, WIDTH - 1, HEIGHT - 1, at)
  \o write_data(PixelBytesPlayer(c), WIDTH * HEIGHT, at)

\* display_frame_rgb565 of a frame of the solid colour c
display_frame_rgb565(c, at) ==
  set_address_window(0, 0, WIDTH - 1, HEIGHT - 1, at)
  \o write_data(PixelBytesPlayer(c), WIDTH * HEIGHT * 2, at)

\* play_video, the acquisitions: SPI device, then both GPIO lines in one request
play_video_acquire ==
  << Ins("new", "spi", 0, << >>, -1), Ins("open", "spi", 0, << >>, -1),
     Ins("req", "gpio", 0, << >>, -1) >>

\* extract_frames: Popen, then the 100 ms wait before the liveness check
extract_frames ==
  << Ins("spawn", "ffmpeg", 0, << >>, -1), Ins("sleep", "", 100, << >>, 0) >>

\* play_video: frame_interval = 1.0 / TARGET_FPS, in milliseconds
frame_interval == 1000 \div TARGET_FPS

\* a pacing that sleeps one frame interval whatever the iteration took
sleep_time_full_interval(processing_time) == frame_interval

\* play_video: sleep_time = frame_interval - processing_time
sleep_time(processing_time) == frame_interval - processing_time

\* a loop iteration in which a failed Image.frombytes skips the display only:
\* the frame is still counted and paced
play_video_iteration_counts_undecoded(c, processing_time, at) ==
  LET slept == IF sleep_time(processing_time) > 0
                 THEN sleep_time(processing_time) ELSE 0
  IN << Ins("load", "frame", 0, << >>, Len(display_frame_rgb565(c, at))) >>
     \o display_frame_rgb565(c, at)
     \o << Ins("count", "", 1, << >>, 0),
           InsAt("pace", "", slept, << >>, 0, processing_time) >>

\* play_video, one loop iteration after a full frame of colour c was read:
\* Image.frombytes (an Exception skips the rest of the iteration), display,
\* frame_count += 1, pacing: time.sleep(sleep_time) if sleep_time > 0.
\* processing_time: the milliseconds from loop_start_time to loop_end_time;
\* the pacing step records it (field o) next to the time slept (field v,
\* 0: no sleep)
play_video_iteration(c, processing_time, at) ==
  LET slept == IF sleep_time(processing_time) > 0
                 THEN sleep_time(processing_time) ELSE 0
      shown == display_frame_rgb565(c, at)
                 \o << Ins("count", "", 1, << >>, 0),
                       InsAt("pace", "", slept, << >>, 0, processing_time) >>
  IN << Ins("load", "frame", 0, << >>, Len(shown)) >> \o shown

\* the exit of the with block: LineRequest.__exit__ releases both lines
with_exit == << Ins("rel", "gpio", 0, << >>, -1) >>

\* the finally block with the SPI close moved in front of the decoder stop
play_video_finally_spi_first(running, timeout, at) ==
  (IF at["spi"] THEN << Ins("rel", "spi", 0, << >>, -1) >> ELSE << >>)
  \o (IF running
        THEN << Ins("term", "ffmpeg", 0, << >>, -1) >>
             \o (IF timeout
                   THEN << Ins("wait", "timeout", 1000, << >>, 1),
                           Ins("kill", "ffmpeg", 0, << >>, -1) >>
                   ELSE << Ins("wait", "exited", 1000, << >>, 0) >>)
             \o << Ins("pclose", "stdout", 0, << >>, -1),
                   Ins("pclose", "stderr", 0, << >>, -1) >>
        ELSE << >>)

\* the finally block with the kill sent right after terminate, before the wait
play_video_finally_kill_before_wait(running, timeout, at) ==
  (IF running
     THEN << Ins("term", "ffmpeg", 0, << >>, -1),
             Ins("kill", "ffmpeg", 0, << >>, -1),
             Ins("wait", "exited", 1000, << >>, 0),
             Ins("pclose", "stdout", 0, << >>, -1),
             Ins("pclose", "stderr", 0, << >>, -1) >>
     ELSE << >>)
  \o (IF at["spi"] THEN << Ins("rel", "spi", 0, << >>, -1) >> ELSE << >>)

\* play_video, the finally block; running: ffmpeg_proc and poll() is None;
\* timeout: wait(timeout=1.0) raises TimeoutExpired
play_video_finally(running, timeout, at) ==
  (IF running
     THEN << Ins("term", "ffmpeg", 0, << >>, -1) >>
          \o (IF timeout
                THEN << Ins("wait", "timeout", 1000, << >>, 1),
                        Ins("kill", "ffmpeg", 0, << >>, -1) >>
                ELSE << Ins("wait", "exited", 1000, << >>, 0) >>)
          \o << Ins("pclose", "stdout", 0, << >>, -1),
                Ins("pclose", "stderr", 0, << >>, -1) >>
     ELSE << >>)
  \o (IF at["spi"] THEN << Ins("rel", "spi", 0, << >>, -1) >> ELSE << >>)


(* ------------------------------- state -------------------------------- *)
VARIABLES
  prog,        \* the program that runs: "driver" (the script of
               \* display_st7789_v4.py), "api" (a client of class ST7789) or
               \* "player" (webm_video_st7789.py)
  phase,       \* the position of the program between its function calls
  todo,        \* the hardware calls the current function still has to make
  wire,        \* history: every hardware call made so far, in order
  attr,        \* attr[r]: the Python reference to handle r is not None
  own,         \* own[r]: "none", "held" or "released" (the OS resource)
  relCalls,    \* relCalls[r]: close()/release() calls made on handle r
  display,     \* the variable `display` of the driver script is not None
  status,      \* the exit status of the process
  hostLE,      \* the host is little-endian (read by ST7789.display_image
               \* only: the player never depends on it)
  faults,      \* Exceptions raised by hardware calls so far
  interrupts,  \* KeyboardInterrupts delivered so far
  calls,       \* method calls made by the client of class ST7789
  ffmpeg_proc, \* the variable `ffmpeg_proc` of play_video is not None
  dec,         \* the decoder process: "none", "running", "exited", "stopped"
  delivered,   \* full frames read from the decoder
  frame_count, \* the variable `frame_count` of play_video
  px,          \* colour conversion alone: the source pixel << r, g, b >>
  out,         \* colour conversion alone: what the two routines make of px
  data_list    \* spi_write alone: its argument, n bytes that repeat the bytes b

vars == << prog, phase, todo, wire, attr, own, relCalls, display, status, hostLE,
           faults, interrupts, calls, ffmpeg_proc, dec, delivered, frame_count,
           px, out, data_list >>

\* the state of the scripts, and the state of the conversion routines
run == << prog, phase, todo, wire, attr, own, relCalls, display, status,
          faults, interrupts, calls, ffmpeg_proc, dec, delivered, frame_count >>
conv == << px, out >>

\* what the hardware calls of the scripts never change
ctl == << prog, hostLE, calls, delivered, px, out, data_list >>

Init ==
  /\ prog \in {"driver", "api", "player"}
  /\ phase = "start"
  /\ todo = << >>
  /\ wire = << >>
  /\ attr = [r \in Res |-> FALSE]
  /\ own = [r \in Res |-> "none"]
  /\ relCalls = [r \in Res |-> 0]
  /\ display = FALSE
  /\ status = 0
  /\ hostLE \in (IF prog = "player" THEN {TRUE} ELSE BOOLEAN)
  /\ faults = 0
  /\ interrupts = 0
  /\ calls = 0
  /\ ffmpeg_proc = FALSE
  /\ dec = "none"
  /\ delivered = 0
  /\ frame_count = 0
  /\ px = << 0, 0, 0 >>
  /\ out = << >>
  /\ data_list = [b |-> << >>, n |-> 0]

(* ------------------ where a raised exception continues ---------------- *)
\* kind: "exc" (an Exception), "kbd" (KeyboardInterrupt) or "exit" (SystemExit).
\* the except clauses of ST7789.__init__ without their self.close()
HandlerDriver_exit_without_close(kind) ==
  IF phase = "acquire" /\ kind = "exc"
    THEN [phase |-> "ctor_except", todo |-> << Ins("exit", "", 1, << >>, -1) >>]
  ELSE IF phase \notin {"finally", "done"} /\ display /\ prog = "driver"
    THEN [phase |-> "finally", todo |-> ST7789_close(attr)]
  ELSE [phase |-> "done", todo |-> << >>]

\* Driver: the except clauses of ST7789.__init__ catch an Exception raised by
\* an acquisition (close(), then sys.exit(1)); everything else reaches the
\* finally of the script, which calls close() only if `display` was assigned.
HandlerDriver(kind) ==
  IF phase = "acquire" /\ kind = "exc"
    THEN [phase |-> "ctor_except",
          todo |-> ST7789_close(attr) \o << Ins("exit", "", 1, << >>, -1) >>]
  ELSE IF phase \notin {"finally", "done"} /\ display /\ prog = "driver"
    THEN [phase |-> "finally", todo |-> ST7789_close(attr)]
  ELSE [phase |-> "done", todo |-> << >>]

\* Player: inside the with block the GPIO request is released first; then the
\* except clauses print; then the finally block runs.
HandlerPlayer(kind) ==
  IF phase \in {"p_init", "p_clear", "p_spawn", "loop", "p_end"}
    THEN [phase |-> "with_exit", todo |-> with_exit]
  ELSE IF phase \in {"p_acquire", "with_exit"}
    THEN [phase |-> "with_exit", todo |-> << >>]
  ELSE [phase |-> "done", todo |-> << >>]

Handler(kind) == IF prog = "player" THEN HandlerPlayer(kind) ELSE HandlerDriver(kind)

(* ------------------------ executing hardware calls -------------------- *)
\* the effect of instruction i on the handles when the call returns
Effect(i) ==
  /\ attr' = CASE i.op \in {"new", "req"} -> [attr EXCEPT ![i.a] = TRUE]
               [] i.op = "unset" -> [attr EXCEPT ![i.a] = FALSE]
               [] OTHER -> attr
  /\ own' = CASE i.op \in {"open", "req"} -> [own EXCEPT ![i.a] = "held"]
              [] i.op = "rel" /\ own[i.a] = "held" -> [own EXCEPT ![i.a] = "released"]
              [] OTHER -> own
  /\ relCalls' = IF i.op = "rel" THEN [relCalls EXCEPT ![i.a] = @ + 1] ELSE relCalls
  /\ dec' = CASE i.op = "spawn" -> "running"
              [] i.op = "wait" /\ i.a = "exited" /\ dec = "running" -> "stopped"
              [] i.op = "kill" /\ dec = "running" -> "stopped"
              [] OTHER -> dec
  /\ frame_count' = IF i.op = "count" THEN frame_count + 1 ELSE frame_count

\* the next hardware call returns normally
Step ==
  /\ todo # << >>
  /\ LET i == Head(todo) IN
       /\ i.op # "exit"
       /\ wire' = Append(wire, Ev(i, TRUE))
       /\ todo' = Tail(todo)
       /\ Effect(i)
  /\ UNCHANGED << ctl, phase, display, status, faults, interrupts, ffmpeg_proc >>

\* sys.exit(1) in the except clauses of ST7789.__init__
Exit ==
  /\ todo # << >>
  /\ Head(todo).op = "exit"
  /\ status' = Head(todo).v
  /\ phase' = Handler("exit").phase
  /\ todo' = Handler("exit").todo
  /\ UNCHANGED << ctl, wire, attr, own, relCalls, display, faults, interrupts,
                  ffmpeg_proc, dec, frame_count >>

\* the next hardware call raises an Exception
Fault ==
  /\ todo # << >>
  /\ faults < MaxFaults
  /\ LET i == Head(todo) IN
       /\ i.op \in Fallible
       /\ faults' = faults + 1
       /\ wire' = Append(wire, Ev(i, FALSE))
       /\ relCalls' = IF i.op = "rel" THEN [relCalls EXCEPT ![i.a] = @ + 1] ELSE relCalls
       /\ IF i.h >= 0
            THEN /\ todo' = SubSeq(todo, i.h + 2, Len(todo))
                 /\ phase' = phase
            ELSE /\ todo' = Handler("exc").todo
                 /\ phase' = Handler("exc").phase
  /\ UNCHANGED << ctl, attr, own, display, status, interrupts, ffmpeg_proc, dec,
                  frame_count >>

\* KeyboardInterrupt before the next hardware call, in the idle loop of the
\* driver script, or in the blocking read of the player; the history records
\* the phase it arrived in
Interrupt ==
  /\ prog # "api"
  /\ interrupts < MaxInterrupts
  /\ \/ todo # << >>
     \/ phase \in {"idle", "loop"}
  /\ interrupts' = interrupts + 1
  /\ wire' = Append(wire, Ev(Ins("kbd", phase, 0, << >>, -1), TRUE))
  /\ todo' = Handler("kbd").todo
  /\ phase' = Handler("kbd").phase
  /\ UNCHANGED << ctl, attr, own, relCalls, display, status, faults, ffmpeg_proc,
                  dec, frame_count >>

\* the program calls function `name`: from phase `from`, with nothing left
\* to do, continue with the hardware calls `code` in phase `to`
Call(from, to, name, code) ==
  /\ phase = from
  /\ todo = << >>
  /\ phase' = to
  /\ todo' = code
  /\ wire' = Append(wire, Ev(Ins("call", name, 0, << >>, 0), TRUE))
  /\ UNCHANGED << prog, hostLE, attr, own, relCalls, status, faults, interrupts,
                  px, out, data_list >>

(* --------------------- display_st7789_v4.py: control ------------------ *)
\* ST7789(...): the try block of __init__
ST7789_init ==
  /\ prog \in {"driver", "api"}
  /\ Call("start", "acquire", "__init__", ST7789_acquire)
  /\ UNCHANGED << display, calls, ffmpeg_proc, dec, delivered, frame_count >>

\* __init__: self.reset()
CtorReset ==
  /\ Call("acquire", "reset", "reset", ST7789_reset(attr))
  /\ UNCHANGED << display, calls, ffmpeg_proc, dec, delivered, frame_count >>

\* __init__: self.init_display()
CtorInitDisplay ==
  /\ Call("reset", "init", "init_display", ST7789_init_display(attr))
  /\ UNCHANGED << display, calls, ffmpeg_proc, dec, delivered, frame_count >>

\* __init__ returns: display = ST7789(...)
CtorReturn ==
  /\ Call("init", IF prog = "driver" THEN "main" ELSE "api", "return", << >>)
  /\ display' = TRUE
  /\ UNCHANGED << calls, ffmpeg_proc, dec, delivered, frame_count >>

\* __main__: --image / --text / --clear, each ends in display_image
MainDisplay ==
  /\ \E c \in Colors :
       Call("main", "shown", "display_image",
            << Ins("load", "image", 0, << >>, -1) >> \o ST7789_display_image(c, hostLE, attr))
  /\ UNCHANGED << display, calls, ffmpeg_proc, dec, delivered, frame_count >>

\* __main__: while True: time.sleep(1)
MainIdle ==
  /\ Call("shown", "idle", "idle", << >>)
  /\ UNCHANGED << display, calls, ffmpeg_proc, dec, delivered, frame_count >>

\* the finally block of the script has run
MainEnd ==
  /\ Call("finally", "done", "end", << >>)
  /\ UNCHANGED << display, calls, ffmpeg_proc, dec, delivered, frame_count >>


(* ------------------- a client of class ST7789 (prog "api") ------------ *)
\* the windows a client requests: below, inside and above the panel, in
\* order and inverted, with and without the defaults, with columns below
\* and above 256
Windows ==
  { << x0, y0, x1, y1 >> : x0 \in {-1, 1, 300}, y0 \in {0, ST7789_HEIGHT},
                           x1 \in {0, None}, y1 \in {1, None} }

\* the last function call recorded in history w, without its arguments
RECURSIVE LastCall(_)
LastCall(w) ==
  IF w = << >> THEN << >>
  ELSE IF w[Len(w)].op = "call"
         THEN << Ev(Ins("call", w[Len(w)].a, 0, << >>, 0), TRUE) >>
  ELSE LastCall(SubSeq(w, 1, Len(w) - 1))

\* a method call by the client with arguments args; the history keeps the
\* previous call's name and the hardware calls of the current one
ApiCallWith(name, args, code) ==
  /\ phase = "api"
  /\ todo = << >>
  /\ calls < MaxCalls
  /\ calls' = calls + 1
  /\ todo' = code
  /\ wire' = Append(LastCall(wire), Ev(Ins("call", name, 0, args, 0), TRUE))
  /\ UNCHANGED << prog, hostLE, delivered, phase, attr, own, relCalls, display,
                  status, faults, interrupts, ffmpeg_proc, dec, frame_count, px, out,
                  data_list >>

ApiCall(name, code) == ApiCallWith(name, << >>, code)

ApiSetWindow ==
  \E w \in Windows :
    ApiCallWith("set_window", w, ST7789_set_window(w[1], w[2], w[3], w[4], attr))

ApiDisplayImage ==
  \E c \in Colors : ApiCall("display_image", ST7789_display_image(c, hostLE, attr))

ApiCommand == ApiCall("command", ST7789_command(ST7789_NORON, attr))

ApiData == ApiCall("data", ST7789_data(<<0>>, 1, attr))

ApiReset == ApiCall("reset", ST7789_reset(attr))

ApiClose == ApiCall("close", ST7789_close(attr))

(* ---------------------- webm_video_st7789.py: control ----------------- *)
\* play_video: the video file does not exist
PlayVideoNoFile ==
  /\ prog = "player"
  /\ Call("start", "done", "no_file", << >>)
  /\ UNCHANGED << display, calls, ffmpeg_proc, dec, delivered, frame_count >>

\* play_video: the try block up to the with statement
PlayVideo ==
  /\ prog = "player"
  /\ Call("start", "p_acquire", "play_video", play_video_acquire)
  /\ UNCHANGED << display, calls, ffmpeg_proc, dec, delivered, frame_count >>

\* play_video: init_display(gpio_request)
PlayInitDisplay ==
  /\ Call("p_acquire", "p_init", "init_display", init_display(attr))
  /\ UNCHANGED << display, calls, ffmpeg_proc, dec, delivered, frame_count >>

\* play_video: display_frame_rgb565(black_frame, gpio_request)
PlayClear ==
  /\ Call("p_init", "p_clear", "display_frame_rgb565",
          display_frame_rgb565(<<0, 0, 0>>, attr))
  /\ UNCHANGED << display, calls, ffmpeg_proc, dec, delivered, frame_count >>

\* play_video: ffmpeg_proc = extract_frames(video_path), up to the poll
PlayExtractFrames ==
  /\ Call("p_clear", "p_spawn", "extract_frames", extract_frames)
  /\ UNCHANGED << display, calls, ffmpeg_proc, dec, delivered, frame_count >>

\* extract_frames without the liveness check: the loop starts in any case
PlayPoll_no_liveness_check ==
  /\ phase = "p_spawn"
  /\ todo = << >>
  /\ ffmpeg_proc' = TRUE
  /\ phase' = "loop"
  /\ todo' = << >>
  /\ wire' = Append(wire, Ev(Ins("poll", dec, 0, << >>, 0), TRUE))
  /\ UNCHANGED << ctl, attr, own, relCalls, display, status, faults, interrupts,
                  dec, frame_count >>

\* extract_frames: proc.poll(); a process that already exited gives None and
\* play_video returns, else ffmpeg_proc is the process and the loop starts
PlayPoll ==
  /\ phase = "p_spawn"
  /\ todo = << >>
  /\ ffmpeg_proc' = (dec = "running")
  /\ phase' = IF dec = "running" THEN "loop" ELSE "with_exit"
  /\ todo' = IF dec = "running" THEN << >> ELSE with_exit
  /\ wire' = Append(wire, Ev(Ins("poll", dec, 0, << >>, 0), TRUE))
  /\ UNCHANGED << ctl, attr, own, relCalls, display, status, faults, interrupts,
                  dec, frame_count >>

\* the decoder process ends on its own; the program observes it in poll()
\* and in read(), so it is taken right before one of them
DecoderExit ==
  /\ dec = "running"
  /\ todo = << >>
  /\ phase \in {"p_spawn", "loop", "with_exit"}
  /\ dec' = "exited"
  /\ UNCHANGED << ctl, phase, todo, wire, attr, own, relCalls, display, status,
                  faults, interrupts, ffmpeg_proc, frame_count >>

\* loop: ffmpeg_proc.stdout.read(frame_size) returns a full frame (the time
\* an iteration takes is varied in the sessions of SpecStream only)
ReadFull ==
  /\ phase = "loop"
  /\ todo = << >>
  /\ delivered < MaxFrames
  /\ delivered' = delivered + 1
  /\ \E c \in FrameColors : todo' = play_video_iteration(c, 0, attr)
  /\ wire' = Append(wire, Ev(Ins("read", "full", WIDTH * HEIGHT * 3, << >>, 0), TRUE))
  /\ UNCHANGED << prog, hostLE, calls, phase, attr, own, relCalls, display, status,
                  faults, interrupts, ffmpeg_proc, dec, frame_count, px, out,
                  data_list >>

\* loop: the read gives up and returns nothing while the decoder is alive
ReadEnd_on_timeout ==
  /\ phase = "loop"
  /\ todo = << >>
  /\ phase' = "p_end"
  /\ wire' = Append(wire, Ev(Ins("read", "eof", 0, << >>, 0), TRUE))
  /\ UNCHANGED << ctl, todo, attr, own, relCalls, display, status, faults,
                  interrupts, ffmpeg_proc, dec, frame_count >>

\* loop: a read of less than a frame is displayed like a full one
ReadEnd_short_displayed ==
  /\ phase = "loop"
  /\ todo = << >>
  /\ dec # "running"
  /\ \E n \in {0, WIDTH * HEIGHT * 3 - 1} :
       /\ wire' = Append(wire, Ev(Ins("read", IF n = 0 THEN "eof" ELSE "short", n, << >>, 0), TRUE))
       /\ phase' = IF n = 0 THEN "p_end" ELSE "loop"
       /\ todo' = IF n = 0 THEN << >> ELSE play_video_iteration(<<0, 0, 0>>, 0, attr)
  /\ UNCHANGED << ctl, attr, own, relCalls, display, status, faults,
                  interrupts, ffmpeg_proc, dec, frame_count >>

\* loop: the read returns nothing or less than a frame (the decoder closed
\* its output): break
ReadEnd ==
  /\ phase = "loop"
  /\ todo = << >>
  /\ dec # "running"
  /\ phase' = "p_end"
  /\ \E n \in {0, WIDTH * HEIGHT * 3 - 1} :
       wire' = Append(wire, Ev(Ins("read", IF n = 0 THEN "eof" ELSE "short", n, << >>, 0), TRUE))
  /\ UNCHANGED << ctl, todo, attr, own, relCalls, display, status, faults,
                  interrupts, ffmpeg_proc, dec, frame_count >>

\* loop: the read raises: break
ReadError ==
  /\ phase = "loop"
  /\ todo = << >>
  /\ faults < MaxFaults
  /\ faults' = faults + 1
  /\ phase' = "p_end"
  /\ wire' = Append(wire, Ev(Ins("read", "error", 0, << >>, 0), FALSE))
  /\ UNCHANGED << ctl, todo, attr, own, relCalls, display, status,
                  interrupts, ffmpeg_proc, dec, frame_count >>

\* after the loop: the with block is left
PlayEnd ==
  /\ Call("p_end", "with_exit", "with_exit", with_exit)
  /\ UNCHANGED << display, calls, ffmpeg_proc, dec, delivered, frame_count >>

\* the finally block of play_video
PlayFinally ==
  /\ \E timeout \in BOOLEAN :
       Call("with_exit", "p_finally", "finally",
            play_video_finally(ffmpeg_proc /\ dec = "running", timeout, attr))
  /\ UNCHANGED << display, calls, ffmpeg_proc, dec, delivered, frame_count >>

\* play_video returns
PlayDone ==
  /\ Call("p_finally", "done", "end", << >>)
  /\ UNCHANGED << display, calls, ffmpeg_proc, dec, delivered, frame_count >>

(* ------------------ playback of a given stream of frames ------------- *)
\* the frames the decoder delivers: solid red, solid green, solid black, ...
StreamFrames == << << 255, 0, 0 >>, << 0, 255, 0 >>, << 0, 0, 0 >> >>
StreamFrame(k) == StreamFrames[((k - 1) % Len(StreamFrames)) + 1]

\* the milliseconds an iteration takes from its start to the end of the
\* display: less than, exactly and more than one frame interval
ProcessingTimes == {10, frame_interval, 65}

\* loop: ffmpeg_proc.stdout.read(frame_size) returns the next full frame of
\* the stream
ReadStreamFrame ==
  /\ phase = "loop"
  /\ todo = << >>
  /\ dec = "running"
  /\ delivered < MaxStream
  /\ delivered' = delivered + 1
  /\ \E t \in ProcessingTimes :
       todo' = play_video_iteration(StreamFrame(delivered + 1), t, attr)
  /\ wire' = Append(wire, Ev(Ins("read", "full", WIDTH * HEIGHT * 3, << >>, 0), TRUE))
  /\ UNCHANGED << prog, hostLE, calls, phase, attr, own, relCalls, display, status,
                  faults, interrupts, ffmpeg_proc, dec, frame_count, px, out,
                  data_list >>

\* loop: Image.frombytes raises: continue
DecodeFails ==
  /\ todo # << >>
  /\ Head(todo).op = "load"
  /\ Fault

\* a session in which the hardware calls return and no interrupt arrives
NextStream ==
  \/ Step \/ DecodeFails
  \/ PlayVideo \/ PlayInitDisplay \/ PlayClear
  \/ PlayExtractFrames \/ PlayPoll \/ DecoderExit
  \/ ReadStreamFrame \/ ReadEnd \/ PlayEnd \/ PlayFinally \/ PlayDone

(* ------------------- the colour conversion routines alone ------------- *)
\* channel values next to the bit boundaries of the 5- and 6-bit fields
Edge == {0, 3, 4, 7, 8, 127, 128, 248, 251, 252, 255}

\* source pixels: every value 0..255 in one channel, edge values in the others
Pixels ==
  { << r, g, b >> : r \in 0..255, g \in {0, 255}, b \in {0, 255} }
  \cup { << r, g, b >> : r \in {0, 255}, g \in 0..255, b \in {0, 255} }
  \cup { << r, g, b >> : r \in {0, 255}, g \in {0, 255}, b \in 0..255 }
  \cup { << r, g, b >> : r \in Edge, g \in Edge, b \in Edge }

InitConv ==
  /\ prog = "conv"
  /\ phase = "start"
  /\ todo = << >>
  /\ wire = << >>
  /\ attr = [r \in Res |-> FALSE]
  /\ own = [r \in Res |-> "none"]
  /\ relCalls = [r \in Res |-> 0]
  /\ display = FALSE
  /\ status = 0
  /\ hostLE \in BOOLEAN
  /\ faults = 0
  /\ interrupts = 0
  /\ calls = 0
  /\ ffmpeg_proc = FALSE
  /\ dec = "none"
  /\ delivered = 0
  /\ frame_count = 0
  /\ px \in Pixels
  /\ out = << >>
  /\ data_list = [b |-> << >>, n |-> 0]

\* one pixel through display_image (the driver) and display_frame_rgb565
\* (the player): the 16-bit values and the bytes handed to the transport
Convert ==
  /\ prog = "conv"
  /\ out = << >>
  /\ out' = [d16 |-> Rgb565Driver(px[1], px[2], px[3]),
             p16 |-> Rgb565Player(px[1], px[2], px[3]),
             dbytes |-> PixelBytesDriver(px, hostLE),
             pbytes |-> PixelBytesPlayer(px)]
  /\ UNCHANGED << run, hostLE, px, data_list >>

(* ----------------------------- spi_write alone ------------------------ *)
\* the payloads handed to spi_write: every length from empty to two full
\* chunks and a byte, of bytes that repeat with a period that does not
\* divide the chunk size
Payloads == { [b |-> << 1, 2, 3 >>, n |-> n] : n \in 0..MaxPayload }

InitChunk ==
  /\ prog = "chunk"
  /\ phase = "start"
  /\ todo = << >>
  /\ wire = << >>
  /\ attr \in { [r \in Res |-> r = "spi" /\ open] : open \in BOOLEAN }
  /\ own = [r \in Res |-> "none"]
  /\ relCalls = [r \in Res |-> 0]
  /\ display = FALSE
  /\ status = 0
  /\ hostLE = TRUE
  /\ faults = 0
  /\ interrupts = 0
  /\ calls = 0
  /\ ffmpeg_proc = FALSE
  /\ dec = "none"
  /\ delivered = 0
  /\ frame_count = 0
  /\ px = << 0, 0, 0 >>
  /\ out = << >>
  /\ data_list \in Payloads

\* spi_write(data_list) is called; its transport calls are then made one by
\* one, and one of them may raise
SpiWrite ==
  /\ prog = "chunk"
  /\ phase = "start"
  /\ phase' = "written"
  /\ todo' = spi_write("data", data_list.b, data_list.n, attr)
  /\ wire' = Append(wire, Ev(Ins("call", "spi_write", 0, << >>, 0), TRUE))
  /\ UNCHANGED << prog, hostLE, calls, delivered, attr, own, relCalls, display,
                  status, faults, interrupts, ffmpeg_proc, dec, frame_count, px, out,
                  data_list >>

NextChunk == SpiWrite \/ Step \/ Fault

(* ------------------------------ behaviours ---------------------------- *)
\* the script of display_st7789_v4.py and a client of its class
NextDriver ==
  \/ Step \/ Exit \/ Fault \/ Interrupt
  \/ ST7789_init \/ CtorReset \/ CtorInitDisplay \/ CtorReturn
  \/ MainDisplay \/ MainIdle \/ MainEnd
  \/ ApiSetWindow \/ ApiDisplayImage \/ ApiCommand \/ ApiData \/ ApiReset \/ ApiClose

\* webm_video_st7789.py
NextPlayer ==
  \/ Step \/ Fault \/ Interrupt
  \/ PlayVideoNoFile \/ PlayVideo \/ PlayInitDisplay \/ PlayClear
  \/ PlayExtractFrames \/ PlayPoll \/ DecoderExit
  \/ ReadFull \/ ReadEnd \/ ReadError \/ PlayEnd \/ PlayFinally \/ PlayDone

\* both scripts
Next ==
  \/ Step \/ Exit \/ Fault \/ Interrupt
  \/ ST7789_init \/ CtorReset \/ CtorInitDisplay \/ CtorReturn
  \/ MainDisplay \/ MainIdle \/ MainEnd
  \/ ApiSetWindow \/ ApiDisplayImage \/ ApiCommand \/ ApiData \/ ApiReset \/ ApiClose
  \/ PlayVideoNoFile \/ PlayVideo \/ PlayInitDisplay \/ PlayClear
  \/ PlayExtractFrames \/ PlayPoll \/ DecoderExit
  \/ ReadFull \/ ReadEnd \/ ReadError \/ PlayEnd \/ PlayFinally \/ PlayDone

InitDriver == Init /\ prog \in {"driver", "api"}
InitPlayer == Init /\ prog = "player"

Spec == Init /\ [][Next]_vars
SpecDriver == InitDriver /\ [][NextDriver]_vars
SpecPlayer == InitPlayer /\ [][NextPlayer]_vars
SpecConv == InitConv /\ [][Convert]_vars
SpecChunk == InitChunk /\ [][NextChunk]_vars
SpecStream == InitPlayer /\ [][NextStream]_vars

(* ======================= properties of the two scripts ================ *)
IsWr(e) == e.op = "wr"
IsDc(e) == e.op = "dc"
IsRst(e) == e.op = "rst"
\* the mode-select level that matches a transfer kind
Level(kind) == IF kind = "cmd" THEN 0 ELSE 1
\* the chunk number of a transport write within its payload
ChunkNo(e) == e.o \div SPI_CHUNK_SIZE

(* ---------------- reading the history, event by event ----------------- *)
\* `wire` only grows by appending (a client call of prog "api" first drops
\* the events of the calls before the previous one), so every event is the
\* last one of some reachable state: a property stated for the last event
\* against everything recorded before it is checked for every event.
Last == wire[Len(wire)]
Earlier == 1..(Len(wire) - 1)

IsCall(e, name) == e.op = "call" /\ e.a = name
IsRel(e, r) == e.op = "rel" /\ e.a = r
IsTerm(e) == e.op = "term"
IsKbd(e) == e.op = "kbd"
\* the calls that stop the decoder process and close its pipes
IsStop(e) == e.op \in {"term", "wait", "kill", "pclose"}
IsTeardown(e) == IsStop(e) \/ e.op = "rel"

\* the history starts with the construction of the driver or with the
\* start of the playback session: nothing was dropped from it
Complete ==
  /\ wire # << >>
  /\ wire[1].op = "call"
  /\ wire[1].a \in {"__init__", "play_video"}

\* the function whose call is the last one recorded up to event k
SectionOf(k) ==
  LET S == { m \in 1..k : wire[m].op = "call" }
  IN IF S = {} THEN "" ELSE wire[CHOOSE m \in S : \A n \in S : n <= m].a

\* the playback loop was entered: extract_frames saw the decoder running
LoopEntered == \E i \in 1..Len(wire) : wire[i].op = "poll" /\ wire[i].a = "running"

(* C1 as stated: every transport write (of a command byte, of data bytes)   *)
(* is immediately preceded by the mode-select line being set to the         *)
(* matching level (low for a command, high for data).                       *)
C1_EveryWriteRightAfterLineSet ==
  (wire # << >> /\ IsWr(Last)) =>
    /\ Len(wire) > 1
    /\ IsDc(wire[Len(wire) - 1]) /\ wire[Len(wire) - 1].ok
    /\ wire[Len(wire) - 1].v = Level(Last.a)

(* C1 amended: the first transport write of every command or data payload   *)
(* is immediately preceded by the mode-select line being set to the         *)
(* matching level; a further chunk of a payload that spi_write splits is    *)
(* separated from that line set only by the earlier chunks of the same      *)
(* payload, written in order, so no other transfer and no mode-select       *)
(* change lies between the line set and any write of the payload.  Only the *)
(* player splits payloads.                                                  *)
C1_PayloadRightAfterLineSet ==
  (wire # << >> /\ IsWr(Last)) =>
    LET k == ChunkNo(Last)
        s == Len(wire) - k - 1
    IN /\ s >= 1
       /\ IsDc(wire[s]) /\ wire[s].ok
       /\ wire[s].v = Level(Last.a)
       /\ \A j \in (s + 1)..(Len(wire) - 1) :
            /\ IsWr(wire[j]) /\ wire[j].ok
            /\ wire[j].a = Last.a
            /\ wire[j].o = (j - s - 1) * SPI_CHUNK_SIZE
       /\ (prog # "player" => k = 0)

\* the player wrote a command, and the second chunk of a data payload
C1_Witness ==
  /\ prog = "player"
  /\ wire # << >> /\ IsWr(Last) /\ Last.a = "data" /\ Last.ok /\ Last.o > 0
  /\ \E i \in Earlier : IsWr(wire[i]) /\ wire[i].a = "cmd" /\ wire[i].ok

KbdOutsideTeardown ==
  \A i \in 1..Len(wire) :
    IsKbd(wire[i]) => wire[i].a \notin {"with_exit", "p_finally", "finally", "ctor_except"}

\* the teardown ran undisturbed: no teardown call raised, no interrupt cut it
TeardownUndisturbed ==
  /\ \A i \in 1..Len(wire) : IsTeardown(wire[i]) => wire[i].ok
  /\ KbdOutsideTeardown

C3_EveryHandleReleasedOnce ==
  (prog \in {"driver", "player"} /\ phase = "done") =>
    \A r \in Res : own[r] # "none" => (own[r] = "released" /\ relCalls[r] = 1)

\* the driver script ended by an interrupt inside the constructor's reset,
\* all three handles still held and close() never called
C3_Witness ==
  /\ prog = "driver" /\ phase = "done"
  /\ \E i, j \in 1..Len(wire) : i < j /\ IsCall(wire[i], "reset") /\ IsKbd(wire[j])
  /\ \A r \in {"spi", "dc", "rst"} : own[r] = "held" /\ relCalls[r] = 0

\* the program entered its teardown: the finally block of play_video;
\* close() called by the driver script (display assigned) or by the except
\* clauses of the constructor (exit status 1)
TeardownEntered ==
  IF prog = "player" THEN \E i \in 1..Len(wire) : IsCall(wire[i], "finally")
  ELSE display \/ status = 1

(* C4: every teardown step is executed even when an earlier one fails: at   *)
(* the end of a run whose teardown no interrupt cut short, the release of   *)
(* every acquired handle has been attempted, whichever teardown call        *)
(* raised.                                                                  *)
C4_EveryTeardownStepRuns ==
  (prog \in {"driver", "player"} /\ phase = "done" /\ TeardownEntered
     /\ KbdOutsideTeardown) =>
    \A r \in Res : own[r] # "none" => relCalls[r] >= 1

\* terminate() of the decoder raised, and the player ended with the SPI
\* transport never closed
C4_Witness ==
  /\ prog = "player" /\ phase = "done" /\ KbdOutsideTeardown
  /\ \E i \in 1..Len(wire) : IsTerm(wire[i]) /\ ~wire[i].ok
  /\ own["spi"] = "held" /\ relCalls["spi"] = 0

(* C5: ST7789.close() called a second time directly after a first call      *)
(* makes no hardware call at all: nothing can raise, no GPIO line and no    *)
(* SPI handle is released a second time, no command is sent to the panel.   *)
C5_SecondCloseDoesNothing ==
  (prog = "api" /\ Len(wire) >= 2 /\ IsCall(wire[1], "close") /\ IsCall(wire[2], "close")) =>
    /\ Len(wire) = 2
    /\ todo = << >>
    /\ \A r \in Res : relCalls[r] <= 1
    /\ \A r \in Res : ~attr[r]

\* two close() calls in a row on a constructed driver, every handle released
\* once
C5_Witness ==
  /\ prog = "api" /\ Len(wire) = 2
  /\ IsCall(wire[1], "close") /\ IsCall(wire[2], "close")
  /\ \A r \in {"spi", "dc", "rst"} : own[r] = "released" /\ relCalls[r] = 1

\* the level writes of a complete hardware reset, and the transfers of a
\* complete init sequence, of the program that runs
ResetLevels == IF prog = "player" THEN << 0, 1 >> ELSE << 1, 0, 1 >>
InitLen == IF prog = "player" THEN 6 ELSE 9

\* up to event k: every level write of the reset and every transfer of the
\* init sequence was made and returned
ResetDone(k) ==
  Cardinality({ m \in 1..k : IsRst(wire[m]) /\ wire[m].ok }) = Len(ResetLevels)
InitDone(k) ==
  Cardinality({ m \in 1..k : IsWr(wire[m]) /\ wire[m].ok
                               /\ SectionOf(m) = "init_display" }) = InitLen

(* C6: no command or data byte outside the init sequence is transferred to  *)
(* the panel unless a hardware reset and the complete init sequence have    *)
(* finished before, on every path (constructor failure paths, failed        *)
(* reset).                                                                  *)
C6_NothingBeforeResetAndInit ==
  (Complete /\ IsWr(Last) /\ SectionOf(Len(wire)) # "init_display") =>
    (ResetDone(Len(wire)) /\ InitDone(Len(wire)))

\* the constructor's failure path: display-off written to a panel whose
\* reset line was never driven
C6_Witness ==
  /\ Complete
  /\ IsWr(Last) /\ Last.ok /\ Last.b = << ST7789_DISPOFF >>
  /\ \A i \in Earlier : ~IsRst(wire[i]) /\ ~IsWr(wire[i])

\* the 16-bit value of bytes k, k + 1 of a payload
Word(b, k) == b[k] * 256 + b[k + 1]

(* C7: for every requested window the column and row ranges placed on the   *)
(* wire satisfy 0 <= start <= end <= limit - 1 (limit: the width for the    *)
(* column range, the height for the row range): never inverted.             *)
C7_WindowOnWireOrderedAndInside ==
  \A i \in 1..(Len(wire) - 2) :
    ( /\ IsWr(wire[i]) /\ wire[i].a = "cmd"
      /\ wire[i].b \in { << ST7789_CASET >>, << ST7789_RASET >> }
      /\ IsWr(wire[i + 2]) /\ wire[i + 2].a = "data" /\ Len(wire[i + 2].b) = 4 ) =>
    LET limit == IF wire[i].b = << ST7789_CASET >>
                   THEN (IF prog = "player" THEN WIDTH ELSE ST7789_WIDTH)
                   ELSE (IF prog = "player" THEN HEIGHT ELSE ST7789_HEIGHT)
        lo == Word(wire[i + 2].b, 1)
        hi == Word(wire[i + 2].b, 3)
    IN 0 <= lo /\ lo <= hi /\ hi <= limit - 1

\* set_window(1, 0, 0, 1): the column range 1..0 on the wire
C7_Witness ==
  /\ prog = "api"
  /\ \E i \in 1..(Len(wire) - 2) :
       /\ IsWr(wire[i]) /\ wire[i].b = << ST7789_CASET >>
       /\ IsWr(wire[i + 2]) /\ wire[i + 2].ok /\ wire[i + 2].b = << 0, 1, 0, 0 >>

(* C8: for every source pixel with channels in 0..255 both conversion       *)
(* routines give the same 16-bit value, the five high bits of red, the six  *)
(* high bits of green and the five high bits of blue packed as              *)
(* red * 2048 + green * 32 + blue, a function of r, g and b only.           *)
C8_SameValueBothRoutines ==
  out # << >> =>
    /\ out.d16 = out.p16
    /\ out.d16 = (px[1] \div 8) * 2048 + (px[2] \div 4) * 32 + (px[3] \div 8)
    /\ out.d16 \in 0..65535

\* a pixel whose low bits are dropped in every channel
C8_Witness ==
  /\ out # << >>
  /\ px = << 255, 127, 8 >>
  /\ out.d16 = 64481 /\ out.p16 = 64481

(* C9: every 16-bit pixel goes to the transport most significant byte       *)
(* first, least significant byte second, on a little-endian and on a        *)
(* big-endian host.                                                         *)
C9_MostSignificantByteFirst ==
  out # << >> =>
    /\ out.dbytes = << out.d16 \div 256, out.d16 % 256 >>
    /\ out.pbytes = << out.p16 \div 256, out.p16 % 256 >>

\* red (0xF800) through display_image on a big-endian host: 0x00 then 0xF8
C9_Witness ==
  /\ out # << >>
  /\ ~hostLE
  /\ px = << 255, 0, 0 >>
  /\ out.d16 = 63488
  /\ out.dbytes = << 0, 248 >>
  /\ out.pbytes = << 248, 0 >>

\* the level writes made on the reset line so far, in order
RstWrites == SelectSeq(wire, IsRst)
RstLevels == [k \in 1..Len(RstWrites) |-> RstWrites[k].v]
IsPrefix(s, t) == Len(s) <= Len(t) /\ s = SubSeq(t, 1, Len(s))

RECURSIVE Slept(_, _)
Slept(i, j) ==
  IF i + 1 >= j THEN 0
  ELSE (IF wire[i + 1].op = "sleep" THEN wire[i + 1].v ELSE 0) + Slept(i + 1, j)

\* the last event before the last one that satisfies P (0: none)
LastBefore(P(_)) ==
  LET S == { i \in Earlier : P(wire[i]) }
  IN IF S = {} THEN 0 ELSE CHOOSE i \in S : \A n \in S : n <= i

\* the last event is the first transfer of the history
FirstTransfer == wire # << >> /\ IsWr(Last) /\ \A i \in Earlier : ~IsWr(wire[i])

\* the reset was made in full: every level write of it returned
ResetComplete ==
  /\ RstLevels = ResetLevels
  /\ \A k \in 1..Len(RstWrites) : RstWrites[k].ok

\* the hold times of the two scripts: between two level writes of a reset,
\* and between the release of the line and the first command
HoldBetweenWrites == IF prog = "player" THEN 100 ELSE 50
SettleAfterRelease == IF prog = "player" THEN 100 ELSE 150

IsCmd(e) == IsWr(e) /\ e.a = "cmd"
IsData(e) == IsWr(e) /\ e.a = "data"
InInit(k) == SectionOf(k) = "init_display"

\* the command bytes written so far, in order
CmdBytes ==
  LET C == SelectSeq(wire, IsCmd) IN [k \in 1..Len(C) |-> C[k].b[1]]

\* the init sequence has just returned to the code that called it
InitReturned ==
  /\ Complete
  /\ IsCall(Last, IF prog = "player" THEN "display_frame_rgb565" ELSE "return")
  /\ InInit(Len(wire) - 1)

\* the position of a command in the order as stated: software reset,
\* sleep-out, pixel format, orientation, inversion, normal mode, display on
StatedOrder ==
  << ST7789_SWRESET, ST7789_SLPOUT, ST7789_COLMOD, ST7789_MADCTL,
     ST7789_INVON, ST7789_NORON, ST7789_DISPON >>
\* the order of the commands in each script's init sequence
InitOrder ==
  IF prog = "player"
    THEN << ST7789_SLPOUT, ST7789_COLMOD, ST7789_MADCTL, ST7789_DISPON >>
    ELSE << ST7789_SWRESET, ST7789_SLPOUT, ST7789_MADCTL, ST7789_COLMOD,
            ST7789_INVON, ST7789_NORON, ST7789_DISPON >>
\* the position of x in the sequence s (0: not in it)
PosIn(x, s) ==
  IF \E k \in 1..Len(s) : s[k] = x THEN CHOOSE k \in 1..Len(s) : s[k] = x ELSE 0

(* C12 as stated: no command of the list software reset, sleep-out, pixel   *)
(* format (0x3A), orientation (0x36), inversion, normal mode, display on is *)
(* sent in the init sequence before one that precedes it in the list.       *)
C12_StatedOrder ==
  (wire # << >> /\ IsCmd(Last) /\ InInit(Len(wire))) =>
    \A i \in Earlier :
      (IsCmd(wire[i]) /\ InInit(i)) =>
        PosIn(wire[i].b[1], StatedOrder) < PosIn(Last.b[1], StatedOrder)

(* C12 amended: the driver's init sequence sends software reset, sleep-out, *)
(* orientation (0x36 with data 0x60), pixel format (0x3A with data 0x55),   *)
(* inversion on, normal mode on, display on, in this order; the player's    *)
(* sends sleep-out, pixel format (0x3A with data 0x55), orientation (0x36   *)
(* with data ROTATION), display on, in this order, and no software reset,   *)
(* inversion or normal-mode command.  No command is sent before one that    *)
(* precedes it in its script's order or twice, each data byte follows its   *)
(* command, and a sequence in which no call raised sends every command.     *)
C12_OrderOfEachScript ==
  /\ (wire # << >> /\ IsCmd(Last) /\ InInit(Len(wire))) =>
       /\ PosIn(Last.b[1], InitOrder) # 0
       /\ \A i \in Earlier :
            (IsCmd(wire[i]) /\ InInit(i)) =>
              PosIn(wire[i].b[1], InitOrder) < PosIn(Last.b[1], InitOrder)
  /\ (wire # << >> /\ IsData(Last) /\ InInit(Len(wire))) =>
       /\ Last.v = 1
       /\ Last.b \in { << 85 >>, << 96 >> }
       /\ IsCmd(wire[Len(wire) - 2]) =>
            wire[Len(wire) - 2].b =
              (IF Last.b = << 85 >> THEN << ST7789_COLMOD >> ELSE << ST7789_MADCTL >>)
  /\ (wire # << >> /\ InitReturned /\ faults = 0) => CmdBytes = InitOrder

\* the constructor of the driver returned after a sequence in which no call
\* raised
C12_Witness ==
  /\ prog = "driver"
  /\ wire # << >> /\ InitReturned /\ faults = 0
  /\ CmdBytes = << 1, 17, 54, 58, 33, 19, 41 >>

(* ----------------------- settle times of the init --------------------- *)
\* the latest earlier write of the command c in this init sequence (0: none)
LastCmd(c) ==
  LET S == { i \in Earlier : IsCmd(wire[i]) /\ wire[i].b = << c >> /\ InInit(i) }
  IN IF S = {} THEN 0 ELSE CHOOSE i \in S : \A n \in S : n <= i

(* C13: in the init sequence at least 500 ms pass between the sleep-out     *)
(* command and the next command sent to the panel, and at least 100 ms pass *)
(* between the display-on command and any later command or data transfer.   *)
C13_SettleAfterSleepOutAndDisplayOn ==
  /\ (wire # << >> /\ IsCmd(Last) /\ LastCmd(ST7789_SLPOUT) # 0
        /\ LastCmd(ST7789_SLPOUT) = LastBefore(IsCmd)) =>
       Slept(LastCmd(ST7789_SLPOUT), Len(wire)) >= 500
  /\ (wire # << >> /\ IsWr(Last) /\ LastCmd(ST7789_DISPON) # 0) =>
       Slept(LastCmd(ST7789_DISPON), Len(wire)) >= 100

\* the player sends the pixel-format command 120 ms after sleep-out
C13_Witness ==
  /\ prog = "player"
  /\ wire # << >> /\ IsCmd(Last) /\ Last.b = << ST7789_COLMOD >>
  /\ LastCmd(ST7789_SLPOUT) # 0
  /\ wire[LastCmd(ST7789_SLPOUT)].ok
  /\ Slept(LastCmd(ST7789_SLPOUT), Len(wire)) = 120

(* ------------------------ a failed step of the init ------------------- *)
\* a mode-select write or a bus write of this init sequence that raised
FailedInitStep(i) ==
  /\ IsDc(wire[i]) \/ IsWr(wire[i])
  /\ ~wire[i].ok
  /\ InInit(i)

(* C14: if a step of the init sequence fails (the mode-select write or the *)
(* bus write raises), no later command or data of the init sequence is sent *)
(* and the sequence does not return normally to its caller.                 *)
C14_FailedStepEndsInit ==
  /\ (wire # << >> /\ IsWr(Last) /\ InInit(Len(wire))) =>
       \A i \in Earlier : ~FailedInitStep(i)
  /\ (wire # << >> /\ InitReturned) =>
       \A i \in Earlier : ~FailedInitStep(i)

\* the driver's constructor returns normally although the write of the first
\* init command raised, and the rest of the sequence was sent
C14_Witness ==
  /\ prog = "driver"
  /\ wire # << >> /\ InitReturned
  /\ \E i \in Earlier :
       /\ FailedInitStep(i) /\ IsCmd(wire[i]) /\ wire[i].b = << ST7789_SWRESET >>
       /\ \E j \in Earlier : j > i /\ IsCmd(wire[j]) /\ wire[j].ok
                              /\ wire[j].b = << ST7789_DISPON >>

(* ------------------------- the address window ------------------------- *)
\* the index of the last function call recorded (0: none)
CurCall ==
  LET S == { m \in 1..Len(wire) : wire[m].op = "call" }
  IN IF S = {} THEN 0 ELSE CHOOSE m \in S : \A n \in S : n <= m

\* the window a script addresses: the clipped arguments of a client's
\* set_window call, the full screen inside display_image and
\* display_frame_rgb565
WindowOf(m) ==
  IF m >= 1 /\ IsCall(wire[m], "set_window")
    THEN LET w == wire[m].b
         IN << Clip(w[1], ST7789_WIDTH), Clip(w[2], ST7789_HEIGHT),
               Clip(IF w[3] = None THEN ST7789_WIDTH - 1 ELSE w[3], ST7789_WIDTH),
               Clip(IF w[4] = None THEN ST7789_HEIGHT - 1 ELSE w[4], ST7789_HEIGHT) >>
  ELSE IF prog = "player" THEN << 0, 0, WIDTH - 1, HEIGHT - 1 >>
  ELSE << 0, 0, ST7789_WIDTH - 1, ST7789_HEIGHT - 1 >>

\* a successful mode-select write, command write, data write
DcOk(level) == [op |-> "dc", a |-> IF level = 0 THEN "cmd" ELSE "data",
                v |-> level, b |-> << >>, o |-> 0, ok |-> TRUE]
CmdOk(c) == [op |-> "wr", a |-> "cmd", v |-> 1, b |-> << c >>, o |-> 0, ok |-> TRUE]
DataOk(b) == [op |-> "wr", a |-> "data", v |-> Len(b), b |-> b, o |-> 0, ok |-> TRUE]

\* the five transfers of the window w, each after its mode-select write
WindowTransfers(w) ==
  << DcOk(0), CmdOk(42),
     DcOk(1), DataOk(<< w[1] \div 256, w[1] % 256, w[3] \div 256, w[3] % 256 >>),
     DcOk(0), CmdOk(43),
     DcOk(1), DataOk(<< w[2] \div 256, w[2] % 256, w[4] \div 256, w[4] % 256 >>),
     DcOk(0), CmdOk(44) >>

\* every hardware call recorded from index s on returned
AllOkFrom(s) ==
  \A j \in s..Len(wire) : wire[j].ok /\ wire[j].op \in {"dc", "wr"}

(* C15: every set_window call on open handles in which no hardware call     *)
(* raises emits exactly five transfers in this order: the column-address    *)
(* command 0x2A, its 4-byte payload [x0 high, x0 low, x1 high, x1 low], the *)
(* row-address command 0x2B, its 4-byte payload [y0 high, y0 low, y1 high,  *)
(* y1 low], and the memory-write command 0x2C; the coordinates are the      *)
(* clipped arguments.  The same holds for the player's set_address_window.  *)
C15_FiveWindowTransfers ==
  /\ (Len(wire) >= 10 /\ IsCmd(Last) /\ Last.b = << ST7789_RAMWR >>
        /\ AllOkFrom(Len(wire) - 9)) =>
       /\ CurCall <= Len(wire) - 10
       /\ SubSeq(wire, Len(wire) - 9, Len(wire)) =
            WindowTransfers(WindowOf(Len(wire) - 10))
  /\ (prog = "api" /\ phase = "api" /\ todo = << >> /\ CurCall # 0
        /\ IsCall(wire[CurCall], "set_window")
        /\ attr["dc"] /\ attr["spi"] /\ AllOkFrom(CurCall + 1)) =>
       /\ Len(wire) = CurCall + 10
       /\ SubSeq(wire, CurCall + 1, Len(wire)) = WindowTransfers(WindowOf(CurCall))

\* a client's set_window(300, 0, None, 1) has returned: columns 300..319
\* with a non-zero high byte, rows 0..1
C15_Witness ==
  /\ prog = "api" /\ phase = "api" /\ todo = << >>
  /\ CurCall # 0 /\ Len(wire) = CurCall + 10
  /\ IsCall(wire[CurCall], "set_window")
  /\ wire[CurCall].b = << 300, 0, None, 1 >>
  /\ AllOkFrom(CurCall + 1)
  /\ wire[CurCall + 4].b = << 1, 44, 1, 63 >>
  /\ wire[CurCall + 8].b = << 0, 0, 0, 1 >>

(* --------------------------- the pixel payload ------------------------ *)
\* a transport write of pixel data: a data write that is not one of the
\* 1-byte and 4-byte data payloads of the init and window commands
PixelWrite(e) == IsData(e) /\ (e.v > 4 \/ e.o > 0)
\* the mode-select write that opens the payload of the last write
PayloadStart == Len(wire) - ChunkNo(Last) - 1
\* the bytes of one full-screen image
PixelBytesTotal ==
  IF prog = "player" THEN WIDTH * HEIGHT * 2 ELSE ST7789_WIDTH * ST7789_HEIGHT * 2
\* the number of transport writes of one full-screen image
PixelChunks ==
  IF prog = "player" THEN (PixelBytesTotal + SPI_CHUNK_SIZE - 1) \div SPI_CHUNK_SIZE
  ELSE 1
\* the next hardware call of the running function is a transport write
MoreToWrite == todo # << >> /\ Head(todo).op = "wr"
IsLoad(e) == e.op = "load"
\* every hardware call recorded from index s to index t returned
AllOkIn(s, t) ==
  \A j \in s..t : wire[j].ok /\ wire[j].op \in {"dc", "wr"}

(* C16: every display_image call (and every display_frame_rgb565 call of    *)
(* the player) on open handles in which no hardware call raises sets the    *)
(* window to the full screen (0, 0, width-1, height-1) and then streams the *)
(* converted pixel bytes as a single data payload: between the memory-write *)
(* command and the end of the payload there is no command transfer and no   *)
(* mode-select write other than the one that sets the line to the data      *)
(* level right after the command; only the payload's own writes follow it.  *)
C16_FullWindowThenOnePayload ==
  /\ (wire # << >> /\ PixelWrite(Last) /\ PayloadStart > 10
        /\ AllOkFrom(PayloadStart - 10)) =>
       /\ SubSeq(wire, PayloadStart - 10, PayloadStart - 1) =
            WindowTransfers(WindowOf(0))
       /\ wire[PayloadStart] = DcOk(1)
       /\ \A j \in (PayloadStart + 1)..Len(wire) :
            /\ PixelWrite(wire[j]) \/ j = PayloadStart + 1
            /\ IsData(wire[j])
            /\ wire[j].o = (j - PayloadStart - 1) * SPI_CHUNK_SIZE
            /\ wire[j].b = PayloadHead(wire[PayloadStart + 1].b, wire[j].o, 2)
       /\ MoreToWrite => /\ Head(todo).a = "data"
                         /\ Head(todo).o = Last.o + Last.v
       /\ ~MoreToWrite => todo = << >> \/ Head(todo).op \notin {"dc", "wr"}
  /\ (prog = "api" /\ phase = "api" /\ todo = << >> /\ CurCall # 0
        /\ IsCall(wire[CurCall], "display_image")
        /\ attr["dc"] /\ attr["spi"] /\ AllOkFrom(CurCall + 1)) =>
       /\ Len(wire) = CurCall + 11 + PixelChunks
       /\ PixelWrite(Last)
  /\ (prog = "player" /\ wire # << >> /\ Last.op = "count"
        /\ AllOkIn(LastBefore(IsLoad) + 1, Len(wire) - 1)) =>
       /\ Len(wire) - 1 = LastBefore(IsLoad) + 11 + PixelChunks
       /\ PixelWrite(wire[Len(wire) - 1])

\* the player has streamed a decoded frame in two transport writes after
\* the full-screen window and counts it
C16_Witness ==
  /\ prog = "player"
  /\ wire # << >> /\ Last.op = "count"
  /\ AllOkIn(LastBefore(IsLoad) + 1, Len(wire) - 1)
  /\ PixelWrite(wire[Len(wire) - 1])
  /\ wire[Len(wire) - 1].o = SPI_CHUNK_SIZE
  /\ wire[Len(wire) - 3] = DcOk(1)
  /\ wire[Len(wire) - 4] = CmdOk(ST7789_RAMWR)

(* ------------------------ the size of the payload --------------------- *)
\* the coordinate sent as the bytes k, k + 1 of the payload b
Coord(b, k) == b[k] * 256 + b[k + 1]

(* C17: after every memory-write command of display_image and of            *)
(* display_frame_rgb565 in which no hardware call raises, the number of     *)
(* pixel-data bytes streamed to the panel equals 2 times the number of      *)
(* pixels of the window that was placed on the wire,                        *)
(* 2 * (x1 - x0 + 1) * (y1 - y0 + 1).                                       *)
C17_PayloadFillsWindow ==
  (wire # << >> /\ PixelWrite(Last) /\ ~MoreToWrite /\ PayloadStart > 10
     /\ AllOkFrom(PayloadStart - 10)) =>
    LET cols == wire[PayloadStart - 7].b
        rows == wire[PayloadStart - 3].b
    IN /\ wire[PayloadStart - 1] = CmdOk(ST7789_RAMWR)
       /\ wire[PayloadStart - 9] = CmdOk(ST7789_CASET)
       /\ wire[PayloadStart - 5] = CmdOk(ST7789_RASET)
       /\ \A j \in (PayloadStart + 1)..(Len(wire) - 1) :
            wire[j].o + wire[j].v = wire[j + 1].o
       /\ wire[PayloadStart + 1].o = 0
       /\ Last.o + Last.v =
            2 * (Coord(cols, 3) - Coord(cols, 1) + 1)
              * (Coord(rows, 3) - Coord(rows, 1) + 1)

\* the driver has streamed a full image after the window 0..319 x 0..239
C17_Witness ==
  /\ prog \in {"driver", "api"}
  /\ wire # << >> /\ PixelWrite(Last) /\ ~MoreToWrite /\ PayloadStart > 10
  /\ AllOkFrom(PayloadStart - 10)
  /\ wire[PayloadStart - 7].b = << 0, 0, 1, 63 >>
  /\ wire[PayloadStart - 3].b = << 0, 0, 0, 239 >>
  /\ Last.v = 153600

(* ----------------------------- the chunking --------------------------- *)
\* byte number i (from 0) of the payload handed to spi_write
PayloadByte(i) == data_list.b[(i % Len(data_list.b)) + 1]
\* spi_write has returned and none of its transport calls raised
WrittenWhole == phase = "written" /\ todo = << >> /\ faults = 0

(* C18: for every payload, spi_write issues transport writes whose sizes    *)
(* never exceed SPI_CHUNK_SIZE (4096 bytes), in increasing offset order,    *)
(* each starting where the one before it ended, so that the concatenation   *)
(* of the chunks equals the payload (no byte lost, duplicated or            *)
(* reordered); an empty payload issues no write.                            *)
C18_ChunksCoverPayloadInOrder ==
  /\ (wire # << >> /\ IsWr(Last)) =>
       /\ Last.v >= 1 /\ Last.v <= SPI_CHUNK_SIZE
       /\ Last.o + Last.v <= data_list.n
       /\ IF IsWr(wire[Len(wire) - 1])
            THEN /\ wire[Len(wire) - 1].ok
                 /\ Last.o = wire[Len(wire) - 1].o + wire[Len(wire) - 1].v
                 /\ Last.o > wire[Len(wire) - 1].o
            ELSE Last.o = 0
       /\ Len(Last.b) = Min(Len(data_list.b), Last.v)
       /\ \A k \in 1..Len(Last.b) : Last.b[k] = PayloadByte(Last.o + k - 1)
  /\ (WrittenWhole /\ attr["spi"] /\ data_list.n > 0) =>
       /\ IsWr(Last)
       /\ Last.o + Last.v = data_list.n
       /\ Len(wire) - 1 = (data_list.n + SPI_CHUNK_SIZE - 1) \div SPI_CHUNK_SIZE
  /\ data_list.n = 0 => \A i \in 1..Len(wire) : ~IsWr(wire[i])

\* a payload of two full chunks and one byte has been written in three calls
C18_Witness ==
  /\ prog = "chunk"
  /\ WrittenWhole /\ attr["spi"]
  /\ data_list.n = 2 * SPI_CHUNK_SIZE + 1
  /\ Len(wire) = 4
  /\ Last.o = 2 * SPI_CHUNK_SIZE /\ Last.v = 1 /\ Last.b = << 3 >>

(* ---------------------------- a failed write -------------------------- *)
\* a transport write that raised
FailedWrite(e) == IsWr(e) /\ ~e.ok

(* C19: when a chunk write fails inside a transport write, the remaining    *)
(* chunks of that payload are not sent, the failed chunk is not retried,    *)
(* and the failure ends the session: no pixel data of a later frame is      *)
(* written and no frame is counted as displayed after it.                   *)
C19_FailedWriteEndsSession ==
  /\ (Len(wire) > 1 /\ FailedWrite(wire[Len(wire) - 1])) => ~IsWr(Last)
  /\ (wire # << >> /\ (PixelWrite(Last) \/ Last.op = "count")) =>
       \A i \in Earlier : ~FailedWrite(wire[i])

\* the player counts a decoded frame as displayed although the first chunk
\* of the clearing frame raised before it; the second chunk of that payload
\* was not sent
C19_Witness ==
  /\ prog = "player"
  /\ wire # << >> /\ Last.op = "count"
  /\ PixelWrite(wire[Len(wire) - 1]) /\ wire[Len(wire) - 1].ok
  /\ \E i \in Earlier :
       /\ FailedWrite(wire[i]) /\ wire[i].v = SPI_CHUNK_SIZE /\ wire[i].o = 0
       /\ SectionOf(i) = "display_frame_rgb565"
       /\ ~IsWr(wire[i + 1])

(* ----------------------- a decoder that does not start ---------------- *)
\* Popen raised, or the process had exited at the liveness check
StartFailed ==
  \E i \in 1..Len(wire) :
    \/ wire[i].op = "spawn" /\ ~wire[i].ok
    \/ wire[i].op = "poll" /\ wire[i].a # "running"
\* a step of the playback loop: a read from the decoder, the decoding of a
\* frame, its count, the pacing sleep
IsLoopStep(e) == e.op \in {"read", "load", "count", "pace"}

(* C20: if the decoder process cannot be spawned or has already exited at   *)
(* the liveness check after the spawn, starting the frame source fails      *)
(* (ffmpeg_proc stays None), the playback loop is never entered (no frame   *)
(* is read from the source, none is displayed or counted, nothing more is   *)
(* sent to the panel), and the teardown still runs: unless an interrupt     *)
(* cuts it, the session ends with the release of the GPIO lines and the     *)
(* close of the SPI transport both called once.                             *)
C20_FailedStartSkipsLoopKeepsTeardown ==
  /\ (wire # << >> /\ IsLoopStep(Last)) =>
       /\ LoopEntered
       /\ \E i \in Earlier : wire[i].op = "spawn" /\ wire[i].ok
  /\ (prog = "player" /\ StartFailed) =>
       /\ ~IsLoopStep(Last) /\ ~IsWr(Last) /\ ~IsDc(Last)
       /\ ~ffmpeg_proc
       /\ frame_count = 0
       /\ phase \in {"with_exit", "p_finally", "done"}
  /\ (prog = "player" /\ phase = "done" /\ StartFailed /\ KbdOutsideTeardown) =>
       /\ relCalls["gpio"] = 1
       /\ relCalls["spi"] = 1

\* the decoder had exited at the liveness check and the session has ended
\* with both releases called
C20_Witness ==
  /\ prog = "player" /\ phase = "done"
  /\ \E i \in 1..Len(wire) : wire[i].op = "poll" /\ wire[i].a = "exited"
  /\ \E i \in 1..Len(wire) : IsRel(wire[i], "gpio") /\ wire[i].ok
  /\ \E i \in 1..Len(wire) : IsRel(wire[i], "spi") /\ wire[i].ok
  /\ own["gpio"] = "released" /\ own["spi"] = "released"

(* ------------------------- the frames of the loop --------------------- *)
\* frame_size of play_video
FrameSize == WIDTH * HEIGHT * 3
IsRead(e) == e.op = "read"

(* C21: every frame handed to the display by the playback loop consists of  *)
(* exactly width*height*3 bytes; a zero-length or short read ends the loop  *)
(* as end-of-stream (the loop is left by break, the session goes on to its  *)
(* normal end), and the bytes of a short read are never displayed: no more  *)
(* frames are displayed than full frames were read.                         *)
C21_OnlyFullFramesDisplayed ==
  /\ (wire # << >> /\ IsLoad(Last) /\ prog = "player") =>
       /\ IsRead(wire[Len(wire) - 1])
       /\ wire[Len(wire) - 1].a = "full"
       /\ wire[Len(wire) - 1].v = FrameSize
  /\ (wire # << >> /\ IsRead(Last) /\ Last.ok /\ Last.v < FrameSize) =>
       /\ Last.a \in {"eof", "short"}
       /\ phase = "p_end"
       /\ todo = << >>
  /\ (wire # << >> /\ IsRead(Last) /\ Last.ok /\ Last.v >= FrameSize) =>
       /\ Last.v = FrameSize
       /\ phase = "loop"
       /\ todo # << >> /\ IsLoad(Head(todo))
  /\ prog = "player" => frame_count <= delivered

\* a read one byte short of a frame has ended the loop after one frame was
\* displayed
C21_Witness ==
  /\ prog = "player"
  /\ wire # << >> /\ IsRead(Last) /\ Last.ok /\ Last.v = FrameSize - 1
  /\ phase = "p_end"
  /\ frame_count = 1 /\ delivered = 1

(* ------------------------ a frame that is not shown ------------------- *)
\* a read that came back short or raised, or a frame that could not be
\* decoded
BadFrame(e) ==
  \/ IsRead(e) /\ (~e.ok \/ e.a = "short")
  \/ IsLoad(e) /\ ~e.ok

(* C22: a frame that is truncated or that cannot be read or decoded         *)
(* mid-stream ends playback without retry: after such a frame no further    *)
(* frame is read from the decoder and none is displayed.                    *)
C22_BadFrameEndsPlayback ==
  (prog = "player" /\ wire # << >>
     /\ (IsRead(Last) \/ IsLoad(Last) \/ Last.op = "count")) =>
    \A i \in Earlier : ~BadFrame(wire[i])

\* the first frame could not be decoded; the second frame was read, shown
\* and counted
C22_Witness ==
  /\ prog = "player"
  /\ wire # << >> /\ Last.op = "count"
  /\ delivered = 2 /\ frame_count = 1
  /\ \E i \in Earlier :
       /\ IsLoad(wire[i]) /\ ~wire[i].ok
       /\ \E j \in (i + 1)..Len(wire) : IsRead(wire[j]) /\ wire[j].a = "full"

(* ------------------------- stopping the decoder ----------------------- *)
(* C23: stopping the frame source first requests graceful termination       *)
(* (terminate), then waits a bounded grace period (1000 ms), and sends the  *)
(* forced kill only if the process did not exit within that period; the     *)
(* kill is never sent without a preceding terminate, and the pipes are      *)
(* closed only after these steps, stdout before stderr.                     *)
C23_TerminateWaitKillThenPipes ==
  /\ (wire # << >> /\ IsTerm(Last)) =>
       \A i \in Earlier : ~IsStop(wire[i])
  /\ (wire # << >> /\ Last.op = "wait") =>
       /\ Last.v = 1000
       /\ IsTerm(wire[Len(wire) - 1]) /\ wire[Len(wire) - 1].ok
  /\ (wire # << >> /\ Last.op = "kill") =>
       /\ wire[Len(wire) - 1].op = "wait"
       /\ wire[Len(wire) - 1].a = "timeout" /\ wire[Len(wire) - 1].ok
       /\ IsTerm(wire[Len(wire) - 2]) /\ wire[Len(wire) - 2].ok
  /\ (wire # << >> /\ Last.op = "pclose" /\ Last.a = "stdout") =>
       /\ \/ wire[Len(wire) - 1].op = "wait" /\ wire[Len(wire) - 1].a = "exited"
          \/ wire[Len(wire) - 1].op = "wait" /\ ~wire[Len(wire) - 1].ok
          \/ wire[Len(wire) - 1].op = "kill" /\ wire[Len(wire) - 1].ok
       /\ \E i \in Earlier : IsTerm(wire[i]) /\ wire[i].ok
  /\ (wire # << >> /\ Last.op = "pclose" /\ Last.a = "stderr") =>
       /\ wire[Len(wire) - 1].op = "pclose"
       /\ wire[Len(wire) - 1].a = "stdout" /\ wire[Len(wire) - 1].ok

\* the decoder did not exit within the grace period: terminate, wait, kill,
\* then both pipes closed
C23_Witness ==
  /\ prog = "player"
  /\ Len(wire) > 5
  /\ Last.op = "pclose" /\ Last.a = "stderr" /\ Last.ok
  /\ wire[Len(wire) - 1].op = "pclose"
  /\ wire[Len(wire) - 2].op = "kill" /\ wire[Len(wire) - 2].ok
  /\ wire[Len(wire) - 3].op = "wait" /\ wire[Len(wire) - 3].a = "timeout"
  /\ IsTerm(wire[Len(wire) - 4])

(* ------------------------- the decoder's pipes ------------------------ *)
\* the decoder process was spawned in this session
Spawned == \E i \in 1..Len(wire) : wire[i].op = "spawn" /\ wire[i].ok
\* the pipe p of the decoder was closed before event number k
ClosedBefore(p, k) ==
  \E i \in 1..(k - 1) : wire[i].op = "pclose" /\ wire[i].a = p /\ wire[i].ok

(* C24: whenever a session in which the decoder process was spawned ends,   *)
(* for any cause, the decoder's output and diagnostic pipes are closed      *)
(* before the GPIO release and the SPI close complete the teardown (stated  *)
(* for sessions whose teardown calls all return and are cut by no           *)
(* interrupt).                                                              *)
C24_PipesClosedBeforeRelease ==
  (prog = "player" /\ phase = "done" /\ Spawned /\ TeardownUndisturbed) =>
    /\ ClosedBefore("stdout", Len(wire) + 1)
    /\ ClosedBefore("stderr", Len(wire) + 1)
    /\ \A k \in 1..Len(wire) :
         (IsRel(wire[k], "gpio") \/ IsRel(wire[k], "spi")) =>
           ClosedBefore("stdout", k) /\ ClosedBefore("stderr", k)

\* the stream ended with the decoder exited on its own: the session is over,
\* GPIO lines and SPI released, and neither pipe was ever closed
C24_Witness ==
  /\ prog = "player" /\ phase = "done" /\ Spawned /\ TeardownUndisturbed
  /\ LoopEntered
  /\ dec = "exited"
  /\ own["gpio"] = "released" /\ own["spi"] = "released"
  /\ \A i \in 1..Len(wire) : wire[i].op # "pclose" /\ ~IsKbd(wire[i])
  /\ faults = 0

(* ----------------------- signalling the decoder ----------------------- *)
\* the termination requests sent to the decoder so far
TermEvents == { i \in 1..Len(wire) : IsTerm(wire[i]) }

(* C25: in every session in which a decoder process was spawned, the        *)
(* process is signalled for termination exactly once when the session ends, *)
(* whatever the cause of the end (stated for sessions whose teardown is cut *)
(* by no interrupt).                                                        *)
C25_SignalledExactlyOnce ==
  (prog = "player" /\ phase = "done" /\ Spawned /\ KbdOutsideTeardown) =>
    Cardinality(TermEvents) = 1

\* an interrupt arrived inside extract_frames, before ffmpeg_proc was
\* assigned: the session has ended, the decoder was never signalled and is
\* still running
C25_Witness ==
  /\ prog = "player" /\ phase = "done" /\ Spawned /\ KbdOutsideTeardown
  /\ TermEvents = {}
  /\ dec = "running"
  /\ ~ffmpeg_proc
  /\ faults = 0

(* -------------------- a stream of N frames, end to end ---------------- *)
\* the events that open a pixel payload: its first transport write
PayloadStarts == { i \in 1..Len(wire) : PixelWrite(wire[i]) /\ wire[i].o = 0 }
\* the k-th element of the set S of event numbers, in order
Nth(S, k) == CHOOSE i \in S : Cardinality({ j \in S : j < i }) = k - 1
\* the 16-bit value sent first in the transport write e
WireWord(e) == e.b[1] * 256 + e.b[2]
\* the wire value of the k-th frame of the stream: red 0xF800, green 0x07E0,
\* black 0x0000
ExpectedWord(k) ==
  LET c == StreamFrame(k)
  IN IF c = << 255, 0, 0 >> THEN 63488
     ELSE IF c = << 0, 255, 0 >> THEN 2016
     ELSE 0
\* the stream has ended: the read after the last frame came back empty or
\* short, and every frame read was decoded
StreamEnded ==
  /\ prog = "player" /\ wire # << >>
  /\ \E i \in 1..Len(wire) : IsRead(wire[i]) /\ wire[i].a \in {"eof", "short"}
  /\ faults = 0
\* the payload opened by event i is complete, every write of it starts with
\* the value w, and exactly one full-screen window precedes it
WholeFrameOf(i, w) ==
  /\ i > 11
  /\ SubSeq(wire, i - 11, i - 2) = WindowTransfers(WindowOf(0))
  /\ wire[i - 1] = DcOk(1)
  /\ i + PixelChunks - 1 <= Len(wire)
  /\ \A j \in i..(i + PixelChunks - 1) :
       /\ PixelWrite(wire[j]) /\ wire[j].ok
       /\ wire[j].o = (j - i) * SPI_CHUNK_SIZE
       /\ WireWord(wire[j]) = w
  /\ wire[i + PixelChunks - 1].o + wire[i + PixelChunks - 1].v = PixelBytesTotal

(* C26 as stated: for a frame source that yields exactly N full frames      *)
(* followed by end-of-stream, exactly N frames are sent to the panel in the *)
(* session, each preceded by exactly one full-screen window, and the pixel  *)
(* payload of the k-th is the conversion of the k-th frame (solid red gives *)
(* 0xF800, solid green 0x07E0, solid black 0x0000), in source order.        *)
C26_ExactlyNFramesSent ==
  StreamEnded =>
    /\ Cardinality(PayloadStarts) = delivered
    /\ \A k \in 1..Cardinality(PayloadStarts) :
         WholeFrameOf(Nth(PayloadStarts, k), ExpectedWord(k))

(* C26 amended: for a frame source that yields exactly N full frames        *)
(* followed by end-of-stream, the session sends exactly N + 1 frames to the *)
(* panel: first the black frame with which play_video clears the display    *)
(* before the loop, then one per source frame.  Each is preceded by exactly *)
(* one full-screen window, the payload sent k-th after the clearing frame   *)
(* is the conversion of the k-th source frame (solid red gives 0xF800,      *)
(* solid green 0x07E0, solid black 0x0000 for every pixel), in source       *)
(* order, and N frames are counted.                                         *)
C26_ClearThenNFramesSent ==
  StreamEnded =>
    /\ Cardinality(PayloadStarts) = delivered + 1
    /\ frame_count = delivered
    /\ Cardinality({ i \in 1..Len(wire) : wire[i] = CmdOk(ST7789_RAMWR) })
         = delivered + 1
    /\ \A k \in 1..Cardinality(PayloadStarts) :
         WholeFrameOf(Nth(PayloadStarts, k),
                      IF k = 1 THEN 0 ELSE ExpectedWord(k - 1))

\* red, green and black were read, then the stream ended: four payloads
\* were sent, starting with 0x0000, 0xF800, 0x07E0, 0x0000
C26_Witness ==
  /\ StreamEnded
  /\ delivered = 3 /\ frame_count = 3
  /\ Cardinality(PayloadStarts) = 4
  /\ wire[Nth(PayloadStarts, 2)].b = << 248, 0 >>
  /\ wire[Nth(PayloadStarts, 3)].b = << 7, 224 >>
  /\ wire[Nth(PayloadStarts, 4)].b = << 0, 0 >>

(* ------------------------------ the pacing ---------------------------- *)
IsPace(e) == e.op = "pace"

(* C27: in every loop iteration that displays a frame, the scheduler sleeps *)
(* exactly max(0, frame_interval - elapsed), where elapsed is the           *)
(* processing time of that iteration alone (whole milliseconds, 40 ms per   *)
(* frame); an overrun in one iteration never shortens the sleep of a later  *)
(* iteration, and no fully read frame is skipped to catch up: every frame   *)
(* read and decoded is displayed and counted before the pacing.             *)
C27_SleepsRestOfOwnInterval ==
  /\ (wire # << >> /\ IsPace(Last)) =>
       /\ Last.v = Max(0, 40 - Last.o)
       /\ wire[Len(wire) - 1].op = "count"
       /\ PixelWrite(wire[Len(wire) - 2])
       /\ faults = 0 => frame_count = delivered
  /\ (wire # << >> /\ Last.op = "count") =>
       todo # << >> /\ IsPace(Head(todo))
  /\ (wire # << >> /\ IsLoad(Last) /\ Last.ok) =>
       /\ todo # << >>
       /\ \E k \in 1..Len(todo) : todo[k].op = "count"

\* an iteration that took 65 ms did not sleep; the next one took 10 ms and
\* slept 30 ms
C27_Witness ==
  /\ prog = "player"
  /\ wire # << >> /\ IsPace(Last) /\ Last.o = 10 /\ Last.v = 30
  /\ delivered = 2 /\ frame_count = 2
  /\ LET i == LastBefore(IsPace)
     IN i # 0 /\ wire[i].o = 65 /\ wire[i].v = 0

(* --------------------------- a stalled decoder ------------------------ *)
\* the scheduler is blocked in the frame read and the decoder is alive
Blocked == prog = "player" /\ phase = "loop" /\ todo = << >> /\ dec = "running"

(* C28: if the decoder process stays alive but neither delivers a full      *)
(* frame nor closes its output, the scheduler stays blocked in the frame    *)
(* read: while that lasts the only steps are an external cancellation       *)
(* (KeyboardInterrupt) and the read call itself raising; no step displays a *)
(* frame, counts or reports one, or starts the teardown.                    *)
C28_BlockedUntilCancelled ==
  [][ (Blocked /\ delivered' = delivered /\ dec' = "running") =>
        /\ Len(wire') = Len(wire) + 1
        /\ \/ IsKbd(wire'[Len(wire')]) /\ wire'[Len(wire')].a = "loop"
           \/ IsRead(wire'[Len(wire')]) /\ ~wire'[Len(wire')].ok
        /\ frame_count' = frame_count
        /\ relCalls' = relCalls
    ]_vars

\* the read was blocked with the decoder alive and no frame delivered when
\* the interrupt arrived: nothing was displayed from the source, and the
\* teardown starts
C28_Witness ==
  /\ prog = "player"
  /\ wire # << >> /\ IsKbd(Last) /\ Last.a = "loop"
  /\ wire[Len(wire) - 1].op = "poll" /\ wire[Len(wire) - 1].a = "running"
  /\ dec = "running" /\ delivered = 0 /\ frame_count = 0
  /\ phase = "with_exit"

(* ------------------------- the closed panel driver -------------------- *)
\* close() has been called on the constructed driver and has returned: it
\* attempted the release of every handle, and the call in progress, if any,
\* is a later one
AfterClose ==
  /\ prog = "api" /\ phase = "api"
  /\ \A r \in {"spi", "dc", "rst"} : relCalls[r] >= 1
  /\ CurCall # 0 /\ (IsCall(wire[CurCall], "close") => todo = << >>)

\* the methods of the driver other than close()
IsMethodCall(e) ==
  e.op = "call" /\ e.a \in {"command", "data", "reset", "set_window", "display_image"}

(* C29: the Closed state of the panel driver is terminal: after close() has *)
(* returned, every call of command(), data(), reset(), set_window() or      *)
(* display_image() makes no hardware call at all (no GPIO line set, no      *)
(* transport write, nothing that can raise), and the driver keeps no        *)
(* handle, whatever was called in between and whether or not a release      *)
(* raised inside close().                                                   *)
C29_ClosedIsTerminal ==
  AfterClose =>
    /\ \A r \in {"spi", "dc", "rst"} : ~attr[r]
    /\ \A r \in {"spi", "dc", "rst"} : relCalls[r] = 1
    /\ IsMethodCall(wire[CurCall]) =>
         /\ CurCall = Len(wire)
         /\ todo = << >>

\* command() called after a close() that returned: the history holds the two
\* calls and nothing else
C29_Witness ==
  /\ AfterClose
  /\ Len(wire) = 2
  /\ IsCall(wire[1], "close") /\ IsCall(wire[2], "command")
  /\ todo = << >>

(* --------------------- the red channel and the wire value ------------- *)
\* the three fields of a 16-bit wire value: bits 15..11, 10..5 and 4..0
RedField(v) == v \div 2048
GreenField(v) == (v \div 32) % 64
BlueField(v) == v % 32

(* C30: colour conversion is monotonic in the red channel: for fixed green  *)
(* and blue and any two red values r1 <= r2 in 0..255, the red field (bits   *)
(* 15..11) of the wire value for r1 is at most that for r2, and the green    *)
(* and blue fields are the same, in display_image and in                     *)
(* display_frame_rgb565.                                                     *)
C30_MonotonicInRed ==
  out # << >> =>
    \A r2 \in px[1]..255 :
      LET d == Rgb565Driver(r2, px[2], px[3])
          p == Rgb565Player(r2, px[2], px[3])
      IN /\ RedField(out.d16) <= RedField(d)
         /\ GreenField(d) = GreenField(out.d16)
         /\ BlueField(d) = BlueField(out.d16)
         /\ RedField(out.p16) <= RedField(p)
         /\ GreenField(p) = GreenField(out.p16)
         /\ BlueField(p) = BlueField(out.p16)

\* red 127 converted next to red 128, the step where bit 7 of the channel
\* turns on: field 15, below field 16 of the larger value; green and blue
\* keep their fields
C30_Witness ==
  /\ out # << >>
  /\ px = << 127, 255, 8 >>
  /\ RedField(out.d16) = 15 /\ RedField(out.p16) = 15
  /\ RedField(Rgb565Driver(128, 255, 8)) = 16
  /\ GreenField(out.d16) = 63 /\ BlueField(out.d16) = 1

(* ------------------------ the two example pixels ---------------------- *)
(* C31: source pixel (0xF8, 0xFC, 0xF8) converts to wire value 0xFFFF and   *)
(* source pixel (0x00, 0x00, 0x00) converts to 0x0000, in display_image and *)
(* in display_frame_rgb565.                                                 *)
C31_SaturatedAndBlackPixel ==
  out # << >> =>
    /\ px = << 248, 252, 248 >> => out.d16 = 65535 /\ out.p16 = 65535
    /\ px = << 0, 0, 0 >> => out.d16 = 0 /\ out.p16 = 0

\* the pixel (0xF8, 0xFC, 0xF8) has been converted by both routines
C31_Witness ==
  /\ out # << >>
  /\ px = << 248, 252, 248 >>
  /\ out.d16 = 65535 /\ out.p16 = 65535
  /\ out.pbytes = << 255, 255 >>

(* =============== webm_video_st7789.py: the throughput report ========== *)
MaxIterations == 4

\* the milliseconds from loop_start_time to loop_end_time of an iteration:
\* short ones, and ones that bring the clock just below, onto and above the
\* two seconds of the report
ReportProcessingTimes == {10, 65, 1959, 1960, 2000}

\* the report condition with "more than" for "at least"
fps_update_due_strict(current_time, last_fps_update_time) ==
  current_time - last_fps_update_time > 2000

\* play_video: if current_time - last_fps_update_time >= 2.0
fps_update_due(current_time, last_fps_update_time) ==
  current_time - last_fps_update_time >= 2000

\* the playback loop seen by its clock: start_time and last_fps_update_time
\* (taken when the loop starts), time.monotonic() (now), frame_count, the
\* frames handed to display_frame_rgb565 (shown), the reports printed, and
\* the last evaluation of the report condition
InitReport ==
  /\ prog = "report"
  /\ phase = "loop"
  /\ todo = << >>
  /\ wire = << >>
  /\ attr = [r \in Res |-> FALSE]
  /\ own = [r \in Res |-> "none"]
  /\ relCalls = [r \in Res |-> 0]
  /\ display = FALSE
  /\ status = 0
  /\ hostLE = TRUE
  /\ faults = 0
  /\ interrupts = 0
  /\ calls = 0
  /\ ffmpeg_proc = TRUE
  /\ dec = "running"
  /\ delivered = 0
  /\ frame_count = 0
  /\ px = << 0, 0, 0 >>
  /\ \E t0 \in {0, 7000} :
       out = [start_time |-> t0, last_fps_update_time |-> t0, now |-> t0,
              shown |-> 0, reports |-> << >>, checked |-> << >>]
  /\ data_list = [b |-> << >>, n |-> 0]

\* one iteration that reads a full frame, displays it, counts it, paces and
\* evaluates the report condition
IterationShown ==
  /\ prog = "report"
  /\ phase = "loop"
  /\ delivered < MaxIterations
  /\ delivered' = delivered + 1
  /\ frame_count' = frame_count + 1
  /\ \E processing_time \in ReportProcessingTimes :
       LET slept == IF sleep_time(processing_time) > 0
                      THEN sleep_time(processing_time) ELSE 0
           current_time == out.now + processing_time + slept
           due == fps_update_due(current_time, out.last_fps_update_time)
           elapsed_total == current_time - out.start_time
           report == [t |-> current_time, frames |-> frame_count + 1,
                      shown |-> out.shown + 1, elapsed |-> elapsed_total]
       IN out' = [out EXCEPT
                    !.now = current_time,
                    !.shown = @ + 1,
                    !.reports = IF due /\ elapsed_total > 0
                                  THEN Append(@, report) ELSE @,
                    !.last_fps_update_time = IF due THEN current_time ELSE @,
                    !.checked = << [t |-> current_time,
                                    since |-> out.last_fps_update_time,
                                    reported |-> due /\ elapsed_total > 0] >>]
  /\ UNCHANGED << prog, phase, todo, wire, attr, own, relCalls, display, status,
                  hostLE, faults, interrupts, calls, ffmpeg_proc, dec, px,
                  data_list >>

\* one iteration in which Image.frombytes raises: continue, the report
\* condition is not reached
IterationSkipped ==
  /\ prog = "report"
  /\ phase = "loop"
  /\ delivered < MaxIterations
  /\ delivered' = delivered + 1
  /\ \E processing_time \in ReportProcessingTimes :
       out' = [out EXCEPT !.now = @ + processing_time, !.checked = << >>]
  /\ UNCHANGED << prog, phase, todo, wire, attr, own, relCalls, display, status,
                  hostLE, faults, interrupts, calls, ffmpeg_proc, dec,
                  frame_count, px, data_list >>

\* the read returns no full frame, or raises: the loop ends
IterationEnds ==
  /\ prog = "report"
  /\ phase = "loop"
  /\ phase' = "p_end"
  /\ dec' = "exited"
  /\ out' = [out EXCEPT !.checked = << >>]
  /\ UNCHANGED << prog, todo, wire, attr, own, relCalls, display, status,
                  hostLE, faults, interrupts, calls, ffmpeg_proc, delivered,
                  frame_count, px, data_list >>

NextReport == IterationShown \/ IterationSkipped \/ IterationEnds
SpecReport == InitReport /\ [][NextReport]_vars

\* the time of the report before the k-th one: the previous report, or the
\* start of the loop for the first
ReportedBefore(k) ==
  IF k = 1 THEN out.start_time ELSE out.reports[k - 1].t

(* C32: during playback a throughput report is emitted in an iteration      *)
(* (one that displayed a frame and so reaches the report condition) exactly *)
(* when at least 2 seconds have passed since the previous report, or since  *)
(* the start of the loop for the first one; the last-report timestamp is    *)
(* then the current time, so two consecutive reports are never less than    *)
(* 2 seconds apart, and the reported frame count equals the number of       *)
(* frames displayed so far in the loop.                                     *)
C32_ReportEveryTwoSeconds ==
  prog = "report" =>
    /\ out.checked # << >> =>
         LET c == out.checked[1] IN
           /\ c.reported <=> (c.t - c.since >= 2000)
           /\ c.reported =>
                /\ out.reports # << >>
                /\ out.reports[Len(out.reports)].t = c.t
                /\ out.last_fps_update_time = c.t
           /\ ~c.reported => out.last_fps_update_time = c.since
    /\ \A k \in 1..Len(out.reports) :
         /\ out.reports[k].t - ReportedBefore(k) >= 2000
         /\ out.reports[k].frames = out.reports[k].shown
    /\ out.last_fps_update_time = ReportedBefore(Len(out.reports) + 1)

\* two reports exactly two seconds apart, the second with three frames
\* displayed, after an iteration that ended 40 ms short of the two seconds
\* without a report
C32_Witness ==
  /\ prog = "report"
  /\ Len(out.reports) = 2
  /\ out.reports[1].t = out.start_time + 2000 /\ out.reports[1].frames = 1
  /\ out.reports[2].t = out.start_time + 4000 /\ out.reports[2].frames = 3
  /\ out.checked # << >> /\ out.checked[1].reported
  /\ out.checked[1].since = out.start_time + 2000

(* ========== i2c_oled_internet_radio.py: RadioDisplay and its thread ==== *)
\* the titles mpv answers with: none, and two different ones
Titles == {"", "A", "B"}

\* phase is the position of the main thread; out holds the attributes of the
\* RadioDisplay object (running, mpv_process, current_title, previous_title,
\* title_changed), the position of the IPC handler thread (ipc) and the state
\* of the mpv process (mpv)
InitRadio ==
  /\ prog = "radio"
  /\ phase = "run"
  /\ todo = << >>
  /\ wire = << >>
  /\ attr = [r \in Res |-> FALSE]
  /\ own = [r \in Res |-> "none"]
  /\ relCalls = [r \in Res |-> 0]
  /\ display = TRUE
  /\ status = 0
  /\ hostLE = TRUE
  /\ faults = 0
  /\ interrupts = 0
  /\ calls = 0
  /\ ffmpeg_proc = FALSE
  /\ dec = "none"
  /\ delivered = 0
  /\ frame_count = 0
  /\ px = << 0, 0, 0 >>
  /\ out = [running |-> TRUE, mpv_process |-> None, current_title |-> "d(^__^)b",
            previous_title |-> "", title_changed |-> FALSE,
            ipc |-> "unstarted", mpv |-> "none"]
  /\ data_list = [b |-> << >>, n |-> 0]

\* what the steps of RadioDisplay leave alone
radioFixed == << prog, todo, wire, attr, own, relCalls, display, status, hostLE,
                faults, interrupts, calls, ffmpeg_proc, dec, delivered,
                frame_count, px, data_list >>

\* run: ipc_thread.start()
RunStartThread ==
  /\ prog = "radio" /\ phase = "run"
  /\ phase' = "scroll"
  /\ out' = [out EXCEPT !.ipc = "popen"]
  /\ UNCHANGED radioFixed

\* _title_scroller, one round of while self.running: a changed title resets
\* the scroll, the text is drawn
TitleScroller ==
  /\ prog = "radio" /\ phase = "scroll"
  /\ out.running
  /\ out.title_changed
  /\ out' = [out EXCEPT !.title_changed = FALSE]
  /\ UNCHANGED << radioFixed, phase >>

\* KeyboardInterrupt in the main thread, before or after the thread start:
\* the except clause calls self.stop()
RadioInterrupt ==
  /\ prog = "radio" /\ phase \in {"run", "scroll"}
  /\ phase' = "stop"
  /\ UNCHANGED << radioFixed, out >>

\* stop: self.running = False
StopRunning ==
  /\ prog = "radio" /\ phase = "stop"
  /\ phase' = "stop_check"
  /\ out' = [out EXCEPT !.running = FALSE]
  /\ UNCHANGED radioFixed

\* stop: if self.mpv_process:
StopCheck ==
  /\ prog = "radio" /\ phase = "stop_check"
  /\ phase' = IF out.mpv_process # None THEN "stop_terminate" ELSE "stop_clear"
  /\ UNCHANGED << radioFixed, out >>

\* stop: self.mpv_process.terminate()
StopTerminate ==
  /\ prog = "radio" /\ phase = "stop_terminate"
  /\ phase' = "stop_clear"
  /\ out' = [out EXCEPT !.mpv = IF @ = "running" THEN "terminated" ELSE @]
  /\ UNCHANGED radioFixed

\* stop: self.clear_display(); self.i2c.close(); stop() returns
StopReturn ==
  /\ prog = "radio" /\ phase = "stop_clear"
  /\ phase' = "stopped"
  /\ UNCHANGED << radioFixed, out >>

\* _mpv_ipc_handler: subprocess.Popen(mpv_cmd) has started the process; its
\* handle is not yet stored
IpcPopen ==
  /\ prog = "radio" /\ out.ipc = "popen"
  /\ out' = [out EXCEPT !.ipc = "assign", !.mpv = "running"]
  /\ UNCHANGED << radioFixed, phase >>

\* _mpv_ipc_handler: subprocess.Popen raises (no mpv): the thread ends
IpcPopenFails ==
  /\ prog = "radio" /\ out.ipc = "popen"
  /\ out' = [out EXCEPT !.ipc = "ended"]
  /\ UNCHANGED << radioFixed, phase >>

\* _mpv_ipc_handler: self.mpv_process = <the handle>
IpcAssign ==
  /\ prog = "radio" /\ out.ipc = "assign"
  /\ out' = [out EXCEPT !.ipc = "outer", !.mpv_process = 1]
  /\ UNCHANGED << radioFixed, phase >>

\* _mpv_ipc_handler: the outer while self.running
IpcOuter ==
  /\ prog = "radio" /\ out.ipc = "outer"
  /\ out' = [out EXCEPT !.ipc = IF out.running THEN "connect" ELSE "ended"]
  /\ UNCHANGED << radioFixed, phase >>

\* _mpv_ipc_handler: s.connect succeeds, or is refused (sleep, next round)
IpcConnect ==
  /\ prog = "radio" /\ out.ipc = "connect"
  /\ \E ok \in BOOLEAN : out' = [out EXCEPT !.ipc = IF ok THEN "inner" ELSE "outer"]
  /\ UNCHANGED << radioFixed, phase >>

\* _mpv_ipc_handler: the inner while self.running: one metadata poll, or the
\* end of the inner loop
IpcPoll ==
  /\ prog = "radio" /\ out.ipc = "inner"
  /\ IF out.running
       THEN \E new_title \in Titles :
              out' = IF new_title # "" /\ new_title # out.current_title
                       THEN [out EXCEPT !.previous_title = out.current_title,
                                        !.current_title = new_title,
                                        !.title_changed = TRUE]
                       ELSE out
       ELSE out' = [out EXCEPT !.ipc = "outer"]
  /\ UNCHANGED << radioFixed, phase >>

NextRadio ==
  \/ RunStartThread \/ TitleScroller \/ RadioInterrupt
  \/ StopRunning \/ StopCheck \/ StopTerminate \/ StopReturn
  \/ IpcPopen \/ IpcPopenFails \/ IpcAssign \/ IpcOuter \/ IpcConnect \/ IpcPoll

SpecRadio == InitRadio /\ [][NextRadio]_vars

(* C33: after RadioDisplay.stop() has returned, the mpv player process      *)
(* started by the IPC handler thread is terminated, or was never started,   *)
(* and the thread will not start it any more; for every interleaving of the *)
(* main thread calling stop() and the IPC thread spawning the process.      *)
C33_StoppedMeansPlayerTerminated ==
  (prog = "radio" /\ phase = "stopped") =>
    /\ out.mpv \in {"none", "terminated"}
    /\ out.ipc # "popen"

\* stop() has returned, the thread has ended, and the mpv process it started
\* runs on: stop() found mpv_process unset
C33_Witness ==
  /\ prog = "radio" /\ phase = "stopped"
  /\ out.ipc = "ended"
  /\ out.mpv = "running"
  /\ ~out.running

(* ====== webm_video_st7789.py: the decoder process and its two pipes ==== *)
\* the room of the two pipes of Popen(stdout=PIPE, stderr=PIPE), counted in
\* pieces the decoder writes at once; a frame is larger than the pipe
StdoutCapacity == 2
StderrCapacity == 2
FrameParts == 3
PipeFrames == 2

\* out.pending: what the decoder writes next (a piece of a frame to stdout,
\* a diagnostic line to stderr); out.produced: the frame pieces written so
\* far; out.stdout, out.stderr: the pieces waiting in the pipes; out.got:
\* the pieces of the current frame that read(frame_size) has collected;
\* phase: the position of play_video
InitPipes ==
  /\ prog = "pipes"
  /\ phase = "loop"
  /\ todo = << >>
  /\ wire = << >>
  /\ attr = [r \in Res |-> FALSE]
  /\ own = [r \in Res |-> "none"]
  /\ relCalls = [r \in Res |-> 0]
  /\ display = FALSE
  /\ status = 0
  /\ hostLE = TRUE
  /\ faults = 0
  /\ interrupts = 0
  /\ calls = 0
  /\ ffmpeg_proc = TRUE
  /\ dec = "running"
  /\ delivered = 0
  /\ frame_count = 0
  /\ px = << 0, 0, 0 >>
  /\ out = [pending |-> "none", produced |-> 0, stdout |-> 0, stderr |-> 0, got |-> 0]
  /\ data_list = [b |-> << >>, n |-> 0]

pipesFixed == << prog, todo, wire, attr, own, relCalls, display, status, hostLE,
                faults, interrupts, calls, ffmpeg_proc, px, data_list >>

\* ffmpeg (-loglevel warning) has a piece of a frame or a warning to write
DecoderNext ==
  /\ prog = "pipes" /\ dec = "running"
  /\ out.pending = "none"
  /\ out.produced < PipeFrames * FrameParts
  /\ \E what \in {"out", "err"} : out' = [out EXCEPT !.pending = what]
  /\ UNCHANGED << pipesFixed, phase, dec, delivered, frame_count >>

\* ffmpeg writes to stdout: blocks while the pipe is full
DecoderWritesFrame ==
  /\ prog = "pipes" /\ dec = "running"
  /\ out.pending = "out"
  /\ out.stdout < StdoutCapacity
  /\ out' = [out EXCEPT !.pending = "none", !.stdout = @ + 1, !.produced = @ + 1]
  /\ UNCHANGED << pipesFixed, phase, dec, delivered, frame_count >>

\* ffmpeg writes to stderr: blocks while the pipe is full
DecoderWritesDiagnostic ==
  /\ prog = "pipes" /\ dec = "running"
  /\ out.pending = "err"
  /\ out.stderr < StderrCapacity
  /\ out' = [out EXCEPT !.pending = "none", !.stderr = @ + 1]
  /\ UNCHANGED << pipesFixed, phase, dec, delivered, frame_count >>

\* ffmpeg has written its last frame and exits: its ends of the pipes close
DecoderDone ==
  /\ prog = "pipes" /\ dec = "running"
  /\ out.pending = "none"
  /\ out.produced = PipeFrames * FrameParts
  /\ dec' = "exited"
  /\ UNCHANGED << pipesFixed, phase, out, delivered, frame_count >>

\* play_video: ffmpeg_proc.stdout.read(frame_size) takes what the pipe holds
\* and returns when the frame is complete
SchedulerReads ==
  /\ prog = "pipes" /\ phase = "loop"
  /\ out.stdout > 0
  /\ IF out.got + 1 = FrameParts
       THEN /\ out' = [out EXCEPT !.stdout = @ - 1, !.got = 0]
            /\ delivered' = delivered + 1
            /\ phase' = "show"
       ELSE /\ out' = [out EXCEPT !.stdout = @ - 1, !.got = @ + 1]
            /\ UNCHANGED << delivered, phase >>
  /\ UNCHANGED << pipesFixed, dec, frame_count >>

\* play_video: the frame is displayed and counted, the next read starts;
\* stderr is not read
SchedulerShows ==
  /\ prog = "pipes" /\ phase = "show"
  /\ phase' = "loop"
  /\ frame_count' = frame_count + 1
  /\ UNCHANGED << pipesFixed, out, dec, delivered >>

\* play_video: the read returns short at the end of the stream
SchedulerEndOfStream ==
  /\ prog = "pipes" /\ phase = "loop"
  /\ dec = "exited" /\ out.stdout = 0
  /\ phase' = "p_end"
  /\ UNCHANGED << pipesFixed, out, dec, delivered, frame_count >>

NextPipes ==
  \/ DecoderNext \/ DecoderWritesFrame \/ DecoderWritesDiagnostic \/ DecoderDone
  \/ SchedulerReads \/ SchedulerShows \/ SchedulerEndOfStream

SpecPipes == InitPipes /\ [][NextPipes]_vars

\* the scheduler waits in the frame read: the pipe is empty
ReadBlocked == prog = "pipes" /\ phase = "loop" /\ out.stdout = 0
\* the decoder is not waiting for room in a pipe
DecoderCanProceed ==
  \/ out.pending = "none"
  \/ out.pending = "out" /\ out.stdout < StdoutCapacity
  \/ out.pending = "err" /\ out.stderr < StderrCapacity

(* C34: the decoder process and the scheduler never block on each other     *)
(* forever: in every state where the decoder is alive and still has output  *)
(* to produce and the scheduler is blocked reading a frame, the decoder is  *)
(* able to make progress, also when it writes diagnostics to its stderr     *)
(* pipe, which the scheduler does not read during playback.                 *)
C34_DecoderNeverStuck ==
  (ReadBlocked /\ dec = "running" /\ out.produced < PipeFrames * FrameParts) =>
    DecoderCanProceed

\* the stderr pipe is full and ffmpeg waits to write another warning, while
\* the scheduler waits for the rest of a frame: neither can move
C34_Witness ==
  /\ ReadBlocked /\ dec = "running"
  /\ out.pending = "err" /\ out.stderr = StderrCapacity
  /\ out.got > 0
  /\ ~ENABLED NextPipes

(* ------------------- a failed acquisition in ST7789.__init__ ---------- *)
\* opening the SPI device or requesting a GPIO line raised
IsAcquire(e) == e.op \in {"open", "req"}
FailedAcquire == \E i \in 1..Len(wire) : IsAcquire(wire[i]) /\ ~wire[i].ok

(* C35: when the acquisition of the SPI handle or of either GPIO line fails *)
(* in the ST7789 constructor, the except clause is entered at once, close() *)
(* releases exactly the handles acquired so far (each once, none that was   *)
(* not acquired), the process exits with status 1, and neither the hardware *)
(* reset nor the init sequence is run (no interrupt arriving meanwhile).    *)
C35_FailedAcquireClosesAndExits ==
  /\ (prog \in {"driver", "api"} /\ wire # << >> /\ IsAcquire(Last) /\ ~Last.ok) =>
       /\ phase = "ctor_except"
       /\ todo # << >> /\ todo[Len(todo)].op = "exit" /\ todo[Len(todo)].v = 1
  /\ (prog \in {"driver", "api"} /\ phase = "ctor_except") =>
       /\ ~display
       /\ wire # << >> /\ ~IsRst(Last)
       /\ ~IsCall(Last, "reset") /\ ~IsCall(Last, "init_display")
  /\ (prog \in {"driver", "api"} /\ phase = "done" /\ interrupts = 0 /\ FailedAcquire) =>
       /\ status = 1
       /\ ~display
       /\ \A r \in {"spi", "dc", "rst"} :
            /\ own[r] # "none" => relCalls[r] = 1
            /\ own[r] = "held" =>
                 \E i \in 1..Len(wire) : IsRel(wire[i], r) /\ ~wire[i].ok
            /\ (own[r] = "none" /\ r # "spi") => relCalls[r] = 0
            /\ relCalls[r] <= 1
       /\ \A i \in 1..Len(wire) :
            /\ ~IsRst(wire[i])
            /\ ~IsCall(wire[i], "reset") /\ ~IsCall(wire[i], "init_display")

\* the request of the reset line failed: the SPI handle and the mode-select
\* line were released, the process has exited with status 1
C35_Witness ==
  /\ prog = "driver" /\ phase = "done" /\ status = 1 /\ interrupts = 0
  /\ \E i \in 1..Len(wire) : wire[i].op = "req" /\ wire[i].a = "rst" /\ ~wire[i].ok
  /\ own["spi"] = "released" /\ own["dc"] = "released" /\ own["rst"] = "none"
  /\ relCalls["spi"] = 1 /\ relCalls["dc"] = 1 /\ relCalls["rst"] = 0

(* ----------------------- the order inside ST7789.close ---------------- *)
\* close() is running: called by the except clauses of the constructor, by
\* the finally block of the script, or by a client
InClose ==
  /\ prog \in {"driver", "api"}
  /\ \/ phase \in {"ctor_except", "finally"}
     \/ phase = "api" /\ CurCall # 0 /\ IsCall(wire[CurCall], "close")

(* C36: in ST7789.close() the display-off command is sent only while both   *)
(* the SPI handle and the mode-select line are still held, and the release  *)
(* order is mode-select line, reset line, SPI handle; no GPIO line set and   *)
(* no transport write happens after the corresponding handle was released,  *)
(* and a failure of the display-off command does not prevent any release.   *)
C36_CloseOrder ==
  (prog \in {"driver", "api"} /\ wire # << >>) =>
    /\ IsDc(Last) => relCalls["dc"] = 0
    /\ IsRst(Last) => relCalls["rst"] = 0
    /\ IsWr(Last) => relCalls["spi"] = 0
    /\ (IsWr(Last) /\ Last.b = << ST7789_DISPOFF >>) =>
         /\ own["spi"] = "held" /\ own["dc"] = "held"
         /\ InClose
    /\ IsRel(Last, "dc") => relCalls["rst"] = 0 /\ relCalls["spi"] = 0
    /\ IsRel(Last, "rst") =>
         /\ relCalls["spi"] = 0
         /\ own["dc"] # "none" => relCalls["dc"] = 1
    /\ IsRel(Last, "spi") =>
         \A r \in {"dc", "rst"} : own[r] # "none" => relCalls[r] = 1
    /\ (~Last.ok /\ (IsDc(Last) \/ IsWr(Last)) /\ InClose) =>
         \A r \in {"spi", "dc", "rst"} :
           own[r] = "held" => \E k \in 1..Len(todo) : todo[k].op = "rel" /\ todo[k].a = r

\* close() called by a client: the write of display-off raised, and the
\* mode-select line, the reset line and the SPI handle were released after it
C36_Witness ==
  /\ prog = "api" /\ InClose /\ todo = << >>
  /\ \E i \in 1..Len(wire) :
       /\ IsWr(wire[i]) /\ ~wire[i].ok /\ wire[i].b = << ST7789_DISPOFF >>
       /\ \E j \in (i + 1)..Len(wire) :
            /\ IsRel(wire[j], "dc") /\ wire[j].ok
            /\ \E k \in (j + 1)..Len(wire) :
                 /\ IsRel(wire[k], "rst") /\ wire[k].ok
                 /\ \E l \in (k + 1)..Len(wire) : IsRel(wire[l], "spi") /\ wire[l].ok
  /\ \A r \in {"spi", "dc", "rst"} : own[r] = "released" /\ relCalls[r] = 1

(* --------------------------- the frame counter ------------------------ *)
\* the frames the loop has handed to display_frame_rgb565: those that
\* Image.frombytes turned into an image
FramesShown ==
  Cardinality({ i \in 1..Len(wire) : IsLoad(wire[i]) /\ wire[i].a = "frame" /\ wire[i].ok })
\* the iteration in progress has handed its frame to the display and has
\* not yet counted it
CountAhead ==
  /\ todo # << >> /\ ~IsLoad(Head(todo))
  /\ \E k \in 1..Len(todo) : todo[k].op = "count"

(* C37: in the playback loop the frame counter equals the number of frames  *)
(* passed to the display since the loop started, whenever the loop is at    *)
(* its read and when it has ended (inside an iteration the frame being      *)
(* displayed is counted right after the display); a frame whose image       *)
(* construction fails is neither displayed nor counted, and the loop then   *)
(* proceeds to the next read without a pacing sleep.                        *)
C37_CounterIsFramesShown ==
  prog = "player" =>
    /\ phase = "loop" => frame_count = FramesShown - (IF CountAhead THEN 1 ELSE 0)
    /\ (phase \in {"loop", "p_end"} /\ todo = << >>) => frame_count = FramesShown
    /\ (wire # << >> /\ IsLoad(Last) /\ Last.ok) =>
         /\ todo # << >> /\ IsDc(Head(todo))
         /\ CountAhead
    /\ (wire # << >> /\ IsLoad(Last) /\ ~Last.ok) =>
         /\ phase = "loop"
         /\ todo = << >>
         /\ frame_count = FramesShown
         /\ IsRead(wire[Len(wire) - 1])

\* the second frame could not be made an image: the loop is at its next read
\* with one frame counted; the first was displayed and paced
C37_Witness ==
  /\ prog = "player" /\ phase = "loop" /\ todo = << >>
  /\ wire # << >> /\ IsLoad(Last) /\ ~Last.ok
  /\ delivered = 2 /\ frame_count = 1 /\ FramesShown = 1
  /\ \E i \in Earlier : IsPace(wire[i])

(* ===================== grok_i2c_tetris.py: class Tetris =============== *)
\* the playing field, smaller than the 8 x 24 of the script, and the number
\* of pieces that are locked in one game
COLUMNS == 4
ROWS == 3
MaxPieces == 2

\* SHAPES: for every tetromino its rotations, each a list of cells (x, y)
SHAPES ==
  << << << <<0,0>>, <<1,0>>, <<2,0>>, <<3,0>> >>,
        << <<0,0>>, <<0,1>>, <<0,2>>, <<0,3>> >> >>,
     << << <<0,0>>, <<1,0>>, <<0,1>>, <<1,1>> >> >>,
     << << <<1,0>>, <<0,1>>, <<1,1>>, <<2,1>> >>,
        << <<1,0>>, <<1,1>>, <<2,1>>, <<1,2>> >>,
        << <<0,1>>, <<1,1>>, <<2,1>>, <<1,2>> >>,
        << <<1,0>>, <<0,1>>, <<1,1>>, <<1,2>> >> >>,
     << << <<0,0>>, <<0,1>>, <<0,2>>, <<1,2>> >>,
        << <<0,1>>, <<1,1>>, <<2,1>>, <<0,2>> >>,
        << <<0,0>>, <<1,0>>, <<1,1>>, <<1,2>> >>,
        << <<2,0>>, <<0,1>>, <<1,1>>, <<2,1>> >> >>,
     << << <<1,0>>, <<1,1>>, <<1,2>>, <<0,2>> >>,
        << <<0,0>>, <<0,1>>, <<1,1>>, <<2,1>> >>,
        << <<0,0>>, <<0,1>>, <<0,2>>, <<1,0>> >>,
        << <<0,0>>, <<1,0>>, <<2,0>>, <<2,1>> >> >>,
     << << <<1,0>>, <<2,0>>, <<0,1>>, <<1,1>> >>,
        << <<0,0>>, <<0,1>>, <<1,1>>, <<1,2>> >> >>,
     << << <<0,0>>, <<1,0>>, <<1,1>>, <<2,1>> >>,
        << <<1,0>>, <<0,1>>, <<1,1>>, <<0,2>> >> >> >>

\* a Tetris object t: grid (row y is grid[y + 1], cell x of it grid[y + 1][x + 1]),
\* current_shape (an index into SHAPES), current_x, current_y, current_rot,
\* score, game_over
BlankRow == [x \in 1..COLUMNS |-> 0]
all(row) == \A x \in 1..Len(row) : row[x] # 0
Cells(t, rot) == SHAPES[t.current_shape][(rot % Len(SHAPES[t.current_shape])) + 1]

\* Tetris.check_collision without the test of the left border
check_collision_no_left_border(t, dx, dy, rot) ==
  \E k \in 1..Len(Cells(t, rot)) :
    LET new_x == t.current_x + Cells(t, rot)[k][1] + dx
        new_y == t.current_y + Cells(t, rot)[k][2] + dy
    IN IF new_x >= COLUMNS \/ new_y >= ROWS THEN TRUE
       ELSE new_x >= 0 /\ new_y >= 0 /\ t.grid[new_y + 1][new_x + 1] # 0

\* Tetris.check_collision
check_collision(t, dx, dy, rot) ==
  \E k \in 1..Len(Cells(t, rot)) :
    LET new_x == t.current_x + Cells(t, rot)[k][1] + dx
        new_y == t.current_y + Cells(t, rot)[k][2] + dy
    IN IF new_x < 0 \/ new_x >= COLUMNS \/ new_y >= ROWS THEN TRUE
       ELSE new_y >= 0 /\ t.grid[new_y + 1][new_x + 1] # 0

\* Tetris.new_shape, random.choice(SHAPES) giving shape number s
new_shape(t, s) ==
  LET n == [t EXCEPT !.current_shape = s, !.current_rot = 0,
                     !.current_x = (COLUMNS \div 2) - 2, !.current_y = 0]
  IN IF check_collision(n, 0, 0, n.current_rot)
       THEN [n EXCEPT !.game_over = TRUE] ELSE n

\* Tetris.rotate
rotate(t) ==
  LET new_rot == (t.current_rot + 1) % Len(SHAPES[t.current_shape])
  IN IF ~check_collision(t, 0, 0, new_rot)
       THEN [t EXCEPT !.current_rot = new_rot] ELSE t

\* Tetris.move
move(t, dx) ==
  IF ~check_collision(t, dx, 0, t.current_rot)
    THEN [t EXCEPT !.current_x = @ + dx] ELSE t

\* Tetris.merge_shape
merge_shape(t) ==
  LET shape == SHAPES[t.current_shape][t.current_rot + 1]
      covered(x, y) ==
        \E k \in 1..Len(shape) :
          /\ t.current_x + shape[k][1] = x
          /\ t.current_y + shape[k][2] = y
  IN [t EXCEPT !.grid = [y \in 1..Len(t.grid) |->
                           [x \in 1..Len(t.grid[y]) |->
                              IF covered(x - 1, y - 1) THEN 1 ELSE t.grid[y][x]]]]

\* Tetris.clear_lines, the loop for y in range(ROWS-1, -1, -1) from y on:
\* del self.grid[y]; self.grid.insert(0, [0]*COLUMNS); lines += 1
RECURSIVE clear_lines_from(_, _, _)
clear_lines_from(grid, y, lines) ==
  IF y < 0 THEN [grid |-> grid, lines |-> lines]
  ELSE IF all(grid[y + 1])
    THEN clear_lines_from(
           << BlankRow >> \o SubSeq(grid, 1, y) \o SubSeq(grid, y + 2, Len(grid)),
           y - 1, lines + 1)
  ELSE clear_lines_from(grid, y - 1, lines)

\* Tetris.clear_lines; `cleared` remembers the call: the rows that were
\* completely filled and the score before it
clear_lines(t) ==
  LET r == clear_lines_from(t.grid, ROWS - 1, 0)
  IN [t EXCEPT !.grid = r.grid,
               !.score = @ + r.lines * 100,
               !.cleared = << [filled |-> Cardinality({ y \in 1..Len(t.grid) : all(t.grid[y]) }),
                               score |-> t.score] >>]

\* Tetris.drop; s is the shape random.choice gives if the piece is locked
drop(t, s) ==
  IF ~check_collision(t, 0, 1, t.current_rot)
    THEN [t EXCEPT !.current_y = @ + 1, !.cleared = << >>]
  ELSE [new_shape(clear_lines(merge_shape(t)), s) EXCEPT !.pieces = @ + 1]

\* the space key: while tetris.drop(): pass
RECURSIVE hard_drop(_, _)
hard_drop(t, s) ==
  IF ~check_collision(t, 0, 1, t.current_rot)
    THEN hard_drop([t EXCEPT !.current_y = @ + 1], s)
  ELSE drop(t, s)

ShapeNumbers == 1..Len(SHAPES)

\* main: tetris = Tetris()
InitTetris ==
  /\ prog = "tetris"
  /\ phase = "t_key"
  /\ todo = << >>
  /\ wire = << >>
  /\ attr = [r \in Res |-> FALSE]
  /\ own = [r \in Res |-> "none"]
  /\ relCalls = [r \in Res |-> 0]
  /\ display = FALSE
  /\ status = 0
  /\ hostLE = TRUE
  /\ faults = 0
  /\ interrupts = 0
  /\ calls = 0
  /\ ffmpeg_proc = FALSE
  /\ dec = "none"
  /\ delivered = 0
  /\ frame_count = 0
  /\ px = << 0, 0, 0 >>
  /\ \E s \in ShapeNumbers :
       out = new_shape([grid |-> [y \in 1..ROWS |-> BlankRow], current_shape |-> s,
                        current_x |-> 0, current_y |-> 0, current_rot |-> 0,
                        score |-> 0, game_over |-> FALSE, pieces |-> 0,
                        cleared |-> << >>], s)
  /\ data_list = [b |-> << >>, n |-> 0]

tetrisFixed == << prog, todo, wire, attr, own, relCalls, display, status, hostLE,
                 faults, interrupts, calls, ffmpeg_proc, dec, delivered,
                 frame_count, px, data_list >>

\* main loop, key handling: KEY_LEFT / KEY_RIGHT
KeyMove ==
  /\ prog = "tetris" /\ phase = "t_key" /\ ~out.game_over
  /\ \E dx \in {-1, 1} : out' = [move(out, dx) EXCEPT !.cleared = << >>]
  /\ phase' = "t_auto"
  /\ UNCHANGED tetrisFixed

\* main loop, key handling: KEY_UP
KeyRotate ==
  /\ prog = "tetris" /\ phase = "t_key" /\ ~out.game_over
  /\ out' = [rotate(out) EXCEPT !.cleared = << >>]
  /\ phase' = "t_auto"
  /\ UNCHANGED tetrisFixed

\* main loop, key handling: KEY_DOWN
KeyDown ==
  /\ prog = "tetris" /\ phase = "t_key" /\ ~out.game_over
  /\ out.pieces < MaxPieces
  /\ \E s \in ShapeNumbers : out' = drop(out, s)
  /\ phase' = "t_auto"
  /\ UNCHANGED tetrisFixed

\* main loop, key handling: the space key
KeySpace ==
  /\ prog = "tetris" /\ phase = "t_key" /\ ~out.game_over
  /\ out.pieces < MaxPieces
  /\ \E s \in ShapeNumbers : out' = hard_drop(out, s)
  /\ phase' = "t_auto"
  /\ UNCHANGED tetrisFixed

\* main loop, key handling: no key within the timeout
KeyNone ==
  /\ prog = "tetris" /\ phase = "t_key" /\ ~out.game_over
  /\ phase' = "t_auto"
  /\ UNCHANGED << tetrisFixed, out >>

\* main loop: the automatic drop is due (game_over is not looked at here)
AutoDrop ==
  /\ prog = "tetris" /\ phase = "t_auto"
  /\ out.pieces < MaxPieces
  /\ \E s \in ShapeNumbers : out' = drop(out, s)
  /\ phase' = "t_key"
  /\ UNCHANGED tetrisFixed

\* main loop: the automatic drop is not due
AutoSkip ==
  /\ prog = "tetris" /\ phase = "t_auto"
  /\ phase' = "t_key"
  /\ UNCHANGED << tetrisFixed, out >>

NextTetris ==
  KeyMove \/ KeyRotate \/ KeyDown \/ KeySpace \/ KeyNone \/ AutoDrop \/ AutoSkip

SpecTetris == InitTetris /\ [][NextTetris]_vars

(* C38: after every call of Tetris.clear_lines(), and so after every drop() *)
(* that locks a piece, the grid has exactly ROWS rows of COLUMNS cells, no  *)
(* row is completely filled, and the score has grown by 100 times the       *)
(* number of rows that were completely filled before the call.              *)
C38_ClearLinesClearsEveryFullRow ==
  (prog = "tetris" /\ out.cleared # << >>) =>
    /\ Len(out.grid) = ROWS
    /\ \A y \in 1..Len(out.grid) : Len(out.grid[y]) = COLUMNS /\ ~all(out.grid[y])
    /\ out.score = out.cleared[1].score + 100 * out.cleared[1].filled

\* two rows were completely filled when clear_lines was called; one of them
\* is still there and the score has grown by 100
C38_Witness ==
  /\ prog = "tetris" /\ out.cleared # << >>
  /\ out.cleared[1].filled = 2
  /\ out.score = out.cleared[1].score + 100
  /\ all(out.grid[ROWS])
  /\ Len(out.grid) = ROWS

(* ------------------------- the active tetromino ----------------------- *)
\* the cells (x, y) of the field that the active tetromino covers
ActiveCells ==
  { << out.current_x + c[1], out.current_y + c[2] >> :
      c \in { Cells(out, out.current_rot)[k] : k \in 1..Len(Cells(out, out.current_rot)) } }

(* C39: after any sequence of move, rotate and drop operations, while       *)
(* game_over is false, every cell of the active tetromino has a column in   *)
(* 0..COLUMNS-1 and a row below ROWS (and not above the field), and no cell *)
(* of it coincides with an occupied grid cell.                              *)
C39_ActivePieceInsideAndFree ==
  (prog = "tetris" /\ ~out.game_over) =>
    /\ out.current_rot \in 0..(Len(SHAPES[out.current_shape]) - 1)
    /\ \A c \in ActiveCells :
         /\ c[1] \in 0..(COLUMNS - 1)
         /\ c[2] \in 0..(ROWS - 1)
         /\ out.grid[c[2] + 1][c[1] + 1] = 0

\* the second piece has been moved to the left border and rotated and rests
\* on the first one: it can neither move left nor fall
C39_Witness ==
  /\ prog = "tetris" /\ ~out.game_over
  /\ out.pieces = 1
  /\ out.current_rot # 0
  /\ \E c \in ActiveCells : c[1] = 0
  /\ check_collision(out, -1, 0, out.current_rot)
  /\ \E c \in ActiveCells : c[2] + 1 < ROWS /\ out.grid[c[2] + 2][c[1] + 1] # 0

(* ================== grok_i2c_snake_with_border.py ===================== *)
\* the playable grid, smaller than the 21 x 5 of the script, and the number
\* of times the snake eats in one game
grid_width == 5
grid_height == 3
MaxFood == 1

KEY_UP == "KEY_UP"
KEY_DOWN == "KEY_DOWN"
KEY_LEFT == "KEY_LEFT"
KEY_RIGHT == "KEY_RIGHT"
ArrowKeys == {KEY_UP, KEY_DOWN, KEY_LEFT, KEY_RIGHT}

\* the cells of a deque of segments
SnakeCells(snake) == { snake[k] : k \in 1..Len(snake) }

\* generate_food: the random positions that are not occupied by the snake
generate_food(snake) ==
  { c \in (0..(grid_width - 1)) \X (0..(grid_height - 1)) : c \notin SnakeCells(snake) }

\* the direction after one key: the if / elif chain on key and direction
key_direction(key, direction) ==
  IF key = KEY_UP /\ direction # << 0, 1 >> THEN << 0, -1 >>
  ELSE IF key = KEY_DOWN /\ direction # << 0, -1 >> THEN << 0, 1 >>
  ELSE IF key = KEY_LEFT /\ direction # << 1, 0 >> THEN << -1, 0 >>
  ELSE IF key = KEY_RIGHT /\ direction # << -1, 0 >> THEN << 1, 0 >>
  ELSE direction

\* the module-level state before the loop; used holds the directions of the
\* last two moves, the latest one last
InitSnake ==
  /\ prog = "snake"
  /\ phase = "s_key"
  /\ todo = << >>
  /\ wire = << >>
  /\ attr = [r \in Res |-> FALSE]
  /\ own = [r \in Res |-> "none"]
  /\ relCalls = [r \in Res |-> 0]
  /\ display = FALSE
  /\ status = 0
  /\ hostLE = TRUE
  /\ faults = 0
  /\ interrupts = 0
  /\ calls = 0
  /\ ffmpeg_proc = FALSE
  /\ dec = "none"
  /\ delivered = 0
  /\ frame_count = 0
  /\ px = << >>
  /\ data_list = [b |-> << >>, n |-> 0]
  /\ \E food \in generate_food(<< << 2, grid_height \div 2 >>, << 3, grid_height \div 2 >>,
                                 << 4, grid_height \div 2 >> >>) :
       out = [snake |-> << << 2, grid_height \div 2 >>, << 3, grid_height \div 2 >>,
                           << 4, grid_height \div 2 >> >>,
              direction |-> << 1, 0 >>, food |-> food, game_over |-> FALSE,
              used |-> << >>, eaten |-> 0]

snakeFixed == << prog, todo, wire, attr, own, relCalls, display, status, hostLE,
                faults, interrupts, calls, ffmpeg_proc, dec, delivered,
                frame_count, px, data_list >>

\* one iteration, key handling: getch returns an arrow key
SnakeKey ==
  /\ prog = "snake" /\ phase = "s_key" /\ ~out.game_over
  /\ \E key \in ArrowKeys :
       out' = [out EXCEPT !.direction = key_direction(key, out.direction)]
  /\ phase' = "s_update"
  /\ UNCHANGED snakeFixed

\* one iteration, key handling: getch returns no key or another key
SnakeNoKey ==
  /\ prog = "snake" /\ phase = "s_key" /\ ~out.game_over
  /\ phase' = "s_update"
  /\ UNCHANGED << snakeFixed, out >>

\* the state after a move in out.direction; food is what generate_food
\* returns if the snake eats
snake_update(g, food) ==
  LET head == g.snake[Len(g.snake)]
      new_head == << head[1] + g.direction[1], head[2] + g.direction[2] >>
      moved == [g EXCEPT !.used = IF Len(@) = 0 THEN << g.direction >>
                                  ELSE << @[Len(@)], g.direction >>]
  IN IF \/ new_head[1] < 0 \/ new_head[1] >= grid_width
        \/ new_head[2] < 0 \/ new_head[2] >= grid_height
        \/ (new_head \in SnakeCells(g.snake) /\ new_head # g.snake[1])
       THEN [moved EXCEPT !.game_over = TRUE]
     ELSE IF new_head = g.food
       THEN [moved EXCEPT !.snake = Append(@, new_head), !.food = food,
                          !.eaten = @ + 1]
     ELSE [moved EXCEPT !.snake = Tail(Append(@, new_head))]

\* one iteration, state update: the update interval has passed
SnakeUpdate ==
  /\ prog = "snake" /\ phase = "s_update"
  /\ LET head == out.snake[Len(out.snake)]
         new_head == << head[1] + out.direction[1], head[2] + out.direction[2] >>
     IN /\ (new_head = out.food => out.eaten < MaxFood)
        /\ \E food \in (IF new_head = out.food /\ new_head \notin SnakeCells(out.snake)
                          THEN generate_food(Append(out.snake, new_head))
                          ELSE {out.food}) :
             out' = snake_update(out, food)
  /\ phase' = "s_key"
  /\ UNCHANGED snakeFixed

\* one iteration, state update: the update interval has not passed
SnakeWait ==
  /\ prog = "snake" /\ phase = "s_update"
  /\ phase' = "s_key"
  /\ UNCHANGED << snakeFixed, out >>

NextSnake == SnakeNoKey \/ SnakeKey \/ SnakeWait \/ SnakeUpdate

SpecSnake == InitSnake /\ [][NextSnake]_vars

(* C40: the direction used for a move is never the exact opposite of the    *)
(* direction used for the previous move, for every sequence of arrow-key    *)
(* presses, including several key presses between two consecutive moves.    *)
C40_NoReversedMove ==
  (prog = "snake" /\ Len(out.used) = 2) =>
    out.used[2] # << 0 - out.used[1][1], 0 - out.used[1][2] >>

\* a move to the right followed by a move to the left: the snake ran into
\* its own second segment and the game is over
C40_Witness ==
  /\ prog = "snake" /\ Len(out.used) = 2
  /\ out.used = << << 1, 0 >>, << -1, 0 >> >>
  /\ out.game_over

====
